---- MODULE Spec2Model ----
(***************************************************************************)
(* The stack VM of thidy-lang (src/src/vm.rs) with the value, upvalue and  *)
(* block model of src/src/lib.rs.                                          *)
(*                                                                         *)
(* Shared-ownership pointers become indices into heaps: an                 *)
(* Rc<RefCell<UpValue>> is an index into `cells`, an Rc<RefCell<Vec<Value>>>*)
(* of a blob instance an index into `insts`, an Rc<RefCell<Block>> an index *)
(* into `blocks`.  Absolute stack slot k of the Rust Vec is stack[k+1].    *)
(* A Rust panic (unwrap on None, index out of bounds, unreachable!) ends   *)
(* the run in status "panic".                                              *)
(***************************************************************************)
EXTENDS Integers, Sequences, FiniteSets, TLC

VARIABLES
    blocks,            \* Prog.blocks: the blocks, block 0 of the source is blocks[1]
    blobs,             \* VM.blobs
    extern_functions,  \* VM.extern_functions
    stack,             \* VM.stack
    frames,            \* VM.frames
    upvalues,          \* VM.upvalues: absolute slot -> cell
    cells,             \* heap of UpValue cells
    insts,             \* heap of blob-instance field vectors
    status,            \* what run() is doing or has returned
    err,               \* the Error run() returned
    acts,              \* history: the activation number of each frame
    nact,              \* history: activations started so far
    captured,          \* history: the captures find_upvalue served
    closes,            \* history: per cell, how often close() ran on it
    last,              \* history: the opcode executed by the last step
    tc                 \* VM::typecheck: its loop position and its error vectors

vars == <<blocks, blobs, extern_functions, stack, frames, upvalues, cells,
          insts, status, err, acts, nact, captured, closes, last, tc>>

\* What eval_op never writes: the program and the typecheck's own locals.
progVars == <<blocks, blobs, extern_functions, tc>>
histVars == <<acts, nact, captured, closes>>

MaxLen == 3      \* longest generated opcode sequence
MaxArgs == 2     \* largest num_args and arity of a generated Call
MaxFields == 2   \* most fields of a generated blob
MaxFrames == 4   \* deepest frame stack explored

-----------------------------------------------------------------------------
(* Values (lib.rs, enum Value) *)

IntV(i) == [tag |-> "Int", i |-> i]
BoolV(b) == [tag |-> "Bool", b |-> b]
\* A float is the exact rational num/den (den > 0); den = 0 encodes
\* inf (num = 1), -inf (num = -1) and NaN (num = 0).
FloatV(n, d) == [tag |-> "Float", num |-> n, den |-> d]
\* A string is the sequence of its character codes.
StringV(s) == [tag |-> "String", s |-> s]
Nil == [tag |-> "Nil"]
Unkown == [tag |-> "Unkown"]
BlobV(id) == [tag |-> "Blob", blob |-> id]
BlobInstance(id, r) == [tag |-> "BlobInstance", blob |-> id, ref |-> r]
Function(ups, b) == [tag |-> "Function", ups |-> ups, block |-> b]
ExternFunction(slot) == [tag |-> "ExternFunction", ext |-> slot]

(* Types (lib.rs, enum Type) *)
TVoid == [t |-> "Void"]
TUnknown == [t |-> "UnknownType"]
TInt == [t |-> "Int"]
TFloat == [t |-> "Float"]
TBool == [t |-> "Bool"]
TString == [t |-> "String"]
TFunction(args, ret) == [t |-> "Function", args |-> args, ret |-> ret]
TBlob(id) == [t |-> "Blob", id |-> id]
TBlobInstance(id) == [t |-> "BlobInstance", id |-> id]

(* Opcodes (lib.rs, enum Op) *)
Op0(name) == [op |-> name]
Constant(v) == [op |-> "Constant", value |-> v]
Get(f) == [op |-> "Get", field |-> f]
Set(f) == [op |-> "Set", field |-> f]
Jmp(t) == [op |-> "Jmp", target |-> t]
JmpFalse(t) == [op |-> "JmpFalse", target |-> t]
ReadLocal(s) == [op |-> "ReadLocal", slot |-> s]
AssignLocal(s) == [op |-> "AssignLocal", slot |-> s]
ReadUpvalue(s) == [op |-> "ReadUpvalue", slot |-> s]
AssignUpvalue(s) == [op |-> "AssignUpvalue", slot |-> s]
Define(ty) == [op |-> "Define", ty |-> ty]
Call(n) == [op |-> "Call", n |-> n]

\* A capture-descriptor entry of Block.ups: (slot, is_up, type).
Up(slot, is_up, ty) == [slot |-> slot, is_up |-> is_up, ty |-> ty]

-----------------------------------------------------------------------------
(* UpValue (lib.rs) *)

\* A new cell that does not record its slot.
UpValueNew_zero(slot) == [slot |-> 0, value |-> Nil]

\* UpValue::new
UpValueNew(slot) == [slot |-> slot, value |-> Nil]

is_closed(c) == c.slot = 0

\* UpValue::get: the cell's own value when closed, the stack slot when open.
\* "panic" stands for the index-out-of-bounds panic of stack[self.slot].
UpGet(c, stk) ==
    IF is_closed(c) THEN [ok |-> TRUE, value |-> c.value]
    ELSE IF c.slot < Len(stk) THEN [ok |-> TRUE, value |-> stk[c.slot + 1]]
    ELSE [ok |-> FALSE, value |-> Nil]

\* A set that always writes the cell's own value, never the stack.
UpSet_copy(c, stk, v) ==
    [ok |-> TRUE, cell |-> [c EXCEPT !.value = v], stack |-> stk]

\* UpValue::set: the new (cell, stack) pair.
UpSet(c, stk, v) ==
    IF is_closed(c) THEN [ok |-> TRUE, cell |-> [c EXCEPT !.value = v], stack |-> stk]
    ELSE IF c.slot < Len(stk)
         THEN [ok |-> TRUE, cell |-> c, stack |-> [stk EXCEPT ![c.slot + 1] = v]]
    ELSE [ok |-> FALSE, cell |-> c, stack |-> stk]

\* A close that copies the value but keeps the slot.
UpClose_open(c, v) == [slot |-> c.slot, value |-> v]

\* A close that zeroes the slot but does not copy the value.
UpClose_stale(c, v) == [slot |-> 0, value |-> c.value]

\* UpValue::close
UpClose(c, v) == [slot |-> 0, value |-> v]

-----------------------------------------------------------------------------
(* Block (lib.rs) *)

\* A lookup that knows only the opcode indices that have an entry of their own.
BlockLine_exact(b, ip) ==
    IF ip \in DOMAIN b.line_offsets THEN b.line_offsets[ip] ELSE 0

\* Block::line: the line recorded at the greatest opcode index <= ip that has
\* an entry in line_offsets, 0 when there is none.
RECURSIVE BlockLine(_, _)
BlockLine(b, ip) ==
    IF ip < 0 THEN 0
    ELSE IF ip \in DOMAIN b.line_offsets THEN b.line_offsets[ip]
    ELSE BlockLine(b, ip - 1)

BlockArgs(b) == b.ty.args
BlockRet(b) == b.ty.ret

\* A block as the compiler's Block::add leaves it: a line entry at every
\* second opcode.
Blk(ty, ups, ops) ==
    [ty |-> ty, ups |-> ups, ops |-> ops, file |-> "builtin",
     line_offsets |-> [i \in {j \in 0..(Len(ops) - 1) : j % 2 = 0} |-> (i \div 2) + 1]]

-----------------------------------------------------------------------------
(* Arithmetic and comparison on payloads *)

Abs(x) == IF x < 0 THEN -x ELSE x
Sign(x) == IF x < 0 THEN -1 ELSE IF x > 0 THEN 1 ELSE 0

RECURSIVE Gcd(_, _)
Gcd(a, b) == IF b = 0 THEN a ELSE Gcd(b, a % b)

\* The float of the fraction n/d, d # 0, in lowest terms with d > 0.
Ratio(n, d) ==
    LET g == Gcd(Abs(n), Abs(d))
    IN FloatV(Sign(d) * (n \div g), Abs(d) \div g)

IsNaN(a) == a.den = 0 /\ a.num = 0
IsInf(a) == a.den = 0 /\ a.num # 0
NaN == FloatV(0, 0)

FloatNeg(a) == FloatV(-a.num, a.den)

FloatAdd(a, b) ==
    IF IsNaN(a) \/ IsNaN(b) THEN NaN
    ELSE IF IsInf(a) THEN (IF IsInf(b) /\ b.num # a.num THEN NaN ELSE a)
    ELSE IF IsInf(b) THEN b
    ELSE Ratio(a.num * b.den + b.num * a.den, a.den * b.den)

FloatSub(a, b) == FloatAdd(a, FloatNeg(b))

FloatMul(a, b) ==
    IF IsNaN(a) \/ IsNaN(b) THEN NaN
    ELSE IF IsInf(a) \/ IsInf(b)
         THEN (IF a.num = 0 \/ b.num = 0 THEN NaN
               ELSE FloatV(Sign(a.num) * Sign(b.num), 0))
    ELSE Ratio(a.num * b.num, a.den * b.den)

FloatDiv(a, b) ==
    IF IsNaN(a) \/ IsNaN(b) THEN NaN
    ELSE IF IsInf(a) THEN (IF IsInf(b) THEN NaN
                           ELSE FloatV(IF b.num < 0 THEN -a.num ELSE a.num, 0))
    ELSE IF IsInf(b) THEN FloatV(0, 1)
    ELSE IF b.num = 0 THEN (IF a.num = 0 THEN NaN ELSE FloatV(Sign(a.num), 0))
    ELSE Ratio(a.num * b.den, a.den * b.num)

FloatEq(a, b) == ~IsNaN(a) /\ ~IsNaN(b) /\ a.num = b.num /\ a.den = b.den

FloatLess(a, b) ==
    /\ ~IsNaN(a) /\ ~IsNaN(b)
    /\ IF a.den = 0 \/ b.den = 0
       THEN (IF a.den = 0 THEN a.num ELSE 0) < (IF b.den = 0 THEN b.num ELSE 0)
       ELSE a.num * b.den < b.num * a.den

\* i64 division truncates toward zero.
IntDiv(a, b) == Sign(a) * Sign(b) * (Abs(a) \div Abs(b))

\* Lexicographic order of strings.
RECURSIVE StrLess(_, _)
StrLess(a, b) ==
    IF b = <<>> THEN FALSE
    ELSE IF a = <<>> THEN TRUE
    ELSE IF Head(a) # Head(b) THEN Head(a) < Head(b)
    ELSE StrLess(Tail(a), Tail(b))

BoolLess(a, b) == ~a /\ b

\* The outcome of a unary or binary opcode on its operands: a pushed value,
\* a RuntimeTypeError, or a panic (integer division by zero).
Pushes(v) == [kind |-> "ok", value |-> v]
TypeErr == [kind |-> "type", value |-> Nil]
Panics == [kind |-> "panic", value |-> Nil]

AddResult(a, b) ==
    IF a.tag = "Float" /\ b.tag = "Float" THEN Pushes(FloatAdd(a, b))
    ELSE IF a.tag = "Int" /\ b.tag = "Int" THEN Pushes(IntV(a.i + b.i))
    ELSE IF a.tag = "String" /\ b.tag = "String" THEN Pushes(StringV(a.s \o b.s))
    ELSE TypeErr

SubResult(a, b) ==
    IF a.tag = "Float" /\ b.tag = "Float" THEN Pushes(FloatSub(a, b))
    ELSE IF a.tag = "Int" /\ b.tag = "Int" THEN Pushes(IntV(a.i - b.i))
    ELSE TypeErr

MulResult(a, b) ==
    IF a.tag = "Float" /\ b.tag = "Float" THEN Pushes(FloatMul(a, b))
    ELSE IF a.tag = "Int" /\ b.tag = "Int" THEN Pushes(IntV(a.i * b.i))
    ELSE TypeErr

DivResult(a, b) ==
    IF a.tag = "Float" /\ b.tag = "Float" THEN Pushes(FloatDiv(a, b))
    ELSE IF a.tag = "Int" /\ b.tag = "Int"
         THEN (IF b.i = 0 THEN Panics ELSE Pushes(IntV(IntDiv(a.i, b.i))))
    ELSE TypeErr

EqualResult(a, b) ==
    IF a.tag = "Float" /\ b.tag = "Float" THEN Pushes(BoolV(FloatEq(a, b)))
    ELSE IF a.tag = "Int" /\ b.tag = "Int" THEN Pushes(BoolV(a.i = b.i))
    ELSE IF a.tag = "String" /\ b.tag = "String" THEN Pushes(BoolV(a.s = b.s))
    ELSE IF a.tag = "Bool" /\ b.tag = "Bool" THEN Pushes(BoolV(a.b = b.b))
    ELSE TypeErr

LessResult(a, b) ==
    IF a.tag = "Float" /\ b.tag = "Float" THEN Pushes(BoolV(FloatLess(a, b)))
    ELSE IF a.tag = "Int" /\ b.tag = "Int" THEN Pushes(BoolV(a.i < b.i))
    ELSE IF a.tag = "String" /\ b.tag = "String" THEN Pushes(BoolV(StrLess(a.s, b.s)))
    ELSE IF a.tag = "Bool" /\ b.tag = "Bool" THEN Pushes(BoolV(BoolLess(a.b, b.b)))
    ELSE TypeErr

GreaterResult(a, b) ==
    IF a.tag = "Float" /\ b.tag = "Float" THEN Pushes(BoolV(FloatLess(b, a)))
    ELSE IF a.tag = "Int" /\ b.tag = "Int" THEN Pushes(BoolV(a.i > b.i))
    ELSE IF a.tag = "String" /\ b.tag = "String" THEN Pushes(BoolV(StrLess(b.s, a.s)))
    ELSE IF a.tag = "Bool" /\ b.tag = "Bool" THEN Pushes(BoolV(BoolLess(b.b, a.b)))
    ELSE TypeErr

AndResult(a, b) ==
    IF a.tag = "Bool" /\ b.tag = "Bool" THEN Pushes(BoolV(a.b /\ b.b)) ELSE TypeErr

OrResult(a, b) ==
    IF a.tag = "Bool" /\ b.tag = "Bool" THEN Pushes(BoolV(a.b \/ b.b)) ELSE TypeErr

NegResult(a) ==
    IF a.tag = "Float" THEN Pushes(FloatNeg(a))
    ELSE IF a.tag = "Int" THEN Pushes(IntV(-a.i))
    ELSE TypeErr

NotResult(a) ==
    IF a.tag = "Bool" THEN Pushes(BoolV(~a.b)) ELSE TypeErr

-----------------------------------------------------------------------------
(* VM helpers (vm.rs) *)

Front(s) == SubSeq(s, 1, Len(s) - 1)
Truncate(s, n) == IF n < Len(s) THEN SubSeq(s, 1, n) ELSE s

\* VM::pop_twice returning (a, b) as removed: the top first.
pop_twice_removal_order(stk) ==
    [a |-> stk[Len(stk)], b |-> stk[Len(stk) - 1],
     stack |-> SubSeq(stk, 1, Len(stk) - 2)]

\* VM::pop_twice: (second from top, top), the order they were on the stack.
pop_twice(stk) ==
    [a |-> stk[Len(stk) - 1], b |-> stk[Len(stk)],
     stack |-> SubSeq(stk, 1, Len(stk) - 2)]

\* VM::find_upvalue with a fresh cell for every request.
find_upvalue_fresh(ups, cls, slot) ==
    [cell |-> Len(cls) + 1,
     upvalues |-> [s \in DOMAIN ups \cup {slot} |->
                      IF s = slot THEN Len(cls) + 1 ELSE ups[s]],
     cells |-> Append(cls, UpValueNew(slot))]

\* VM::find_upvalue: the cell registered for the slot, registering a new open
\* cell when there is none.
find_upvalue(ups, cls, slot) ==
    IF slot \in DOMAIN ups
    THEN [cell |-> ups[slot], upvalues |-> ups, cells |-> cls]
    ELSE [cell |-> Len(cls) + 1,
          upvalues |-> [s \in DOMAIN ups \cup {slot} |->
                           IF s = slot THEN Len(cls) + 1 ELSE ups[s]],
          cells |-> Append(cls, UpValueNew(slot))]

\* VM::drop_upvalue that closes the cell and leaves it registered.
drop_upvalue_keep(ups, cls, slot, value) ==
    IF slot \in DOMAIN ups
    THEN [ok |-> TRUE, cell |-> ups[slot], upvalues |-> ups,
          cells |-> [cls EXCEPT ![ups[slot]] = UpClose(@, value)]]
    ELSE [ok |-> FALSE, cell |-> 0, upvalues |-> ups, cells |-> cls]

\* VM::drop_upvalue: close the registered cell with the value and remove it
\* from the registry; unreachable!() when no cell is registered.
drop_upvalue(ups, cls, slot, value) ==
    IF slot \in DOMAIN ups
    THEN [ok |-> TRUE, cell |-> ups[slot],
          upvalues |-> [s \in DOMAIN ups \ {slot} |-> ups[s]],
          cells |-> [cls EXCEPT ![ups[slot]] = UpClose(@, value)]]
    ELSE [ok |-> FALSE, cell |-> 0, upvalues |-> ups, cells |-> cls]

Running == status = "running"
TopFrame == frames[Len(frames)]
CurBlock == blocks[TopFrame.block]
OpInRange == TopFrame.ip < Len(CurBlock.ops)
\* VM::op
CurOp == CurBlock.ops[TopFrame.ip + 1]
At(name) == Running /\ OpInRange /\ CurOp.op = name

\* VM::error
VmError(kind, message) ==
    [kind |-> kind, file |-> CurBlock.file,
     line |-> BlockLine(CurBlock, TopFrame.ip), message |-> message]

NoError == [kind |-> [k |-> "None"], file |-> "", line |-> 0, message |-> "None"]

InvalidProgram == [k |-> "InvalidProgram"]
RuntimeTypeError(op, values) == [k |-> "RuntimeTypeError", op |-> op, values |-> values]

\* An opcode whose fall-through hands Done to the host.
Continue_done(stk) ==
    /\ stack' = stk
    /\ frames' = [frames EXCEPT ![Len(frames)].ip = @ + 1]
    /\ status' = "done"
    /\ err' = err

\* An Err that the loop of run() does not propagate.
Raise_continue(stk, kind, message) ==
    /\ stack' = stk
    /\ frames' = [frames EXCEPT ![Len(frames)].ip = @ + 1]
    /\ status' = "running"
    /\ err' = err

\* self.frame_mut().ip += 1 left out.
AdvanceIp_stay(fs) == fs

\* self.frame_mut().ip += 1
AdvanceIp(fs) == [fs EXCEPT ![Len(fs)].ip = @ + 1]

\* The three ways an opcode ends: the fall-through ip += 1 with Continue, an
\* Err built by error!, a panic.
Continue(stk) ==
    /\ stack' = stk
    /\ frames' = [frames EXCEPT ![Len(frames)].ip = @ + 1]
    /\ status' = "running"
    /\ err' = err

Raise(stk, kind, message) ==
    /\ stack' = stk
    /\ frames' = frames
    /\ status' = "error"
    /\ err' = VmError(kind, message)

Panic ==
    /\ status' = "panic"
    /\ UNCHANGED <<stack, frames, err>>

-----------------------------------------------------------------------------
(* VM::eval_op, one action per opcode *)

\* History of close(): for every cell how often close() ran on it (n) and how
\* many captures had been served when it last ran (at, -1 before any close).
ClosesAfter(dropped, ncells) ==
    [c \in 1..ncells |->
        LET old == IF c \in DOMAIN closes THEN closes[c] ELSE [n |-> 0, at |-> -1]
            k == Cardinality({i \in DOMAIN dropped : dropped[i] = c})
        IN IF k = 0 THEN old ELSE [n |-> old.n + k, at |-> Len(captured)]]

\* History of find_upvalue: one entry per capture entry with is_up = false, in
\* the order served: the cell handed out, the absolute slot, the activation
\* and block of the materializing frame, and the activations then live.
RECURSIVE CaptureLog(_, _, _)
CaptureLog(desc, ups, offset) ==
    IF desc = <<>> THEN <<>>
    ELSE (IF Head(desc).is_up THEN <<>>
          ELSE <<[cell |-> Head(ups), slot |-> offset + Head(desc).slot,
                  act |-> acts[Len(acts)], fn |-> frames[Len(frames)].block,
                  live |-> {acts[i] : i \in DOMAIN acts}]>>)
         \o CaptureLog(Tail(desc), Tail(ups), offset)

HeapSame == UNCHANGED <<upvalues, cells, insts>>

OpIllegal ==
    /\ At("Illegal")
    /\ Raise(stack, InvalidProgram, "None")
    /\ last' = CurOp
    /\ HeapSame /\ UNCHANGED <<progVars, histVars>>

OpUnreachable ==
    /\ At("Unreachable")
    /\ Raise(stack, [k |-> "Unreachable"], "None")
    /\ last' = CurOp
    /\ HeapSame /\ UNCHANGED <<progVars, histVars>>

OpPop ==
    /\ At("Pop")
    /\ IF Len(stack) = 0 THEN Panic ELSE Continue(Front(stack))
    /\ last' = CurOp
    /\ HeapSame /\ UNCHANGED <<progVars, histVars>>

OpYield ==
    /\ At("Yield")
    /\ stack' = stack
    /\ frames' = AdvanceIp(frames)
    /\ status' = "yield"
    /\ err' = err
    /\ last' = CurOp
    /\ HeapSame /\ UNCHANGED <<progVars, histVars>>

OpPopUpvalue ==
    /\ At("PopUpvalue")
    /\ IF Len(stack) = 0
       THEN Panic /\ UNCHANGED <<upvalues, cells, closes>>
       ELSE LET d == drop_upvalue(upvalues, cells, Len(stack) - 1, stack[Len(stack)])
            IN IF d.ok
               THEN /\ Continue(Front(stack))
                    /\ upvalues' = d.upvalues
                    /\ cells' = d.cells
                    /\ closes' = ClosesAfter(<<d.cell>>, Len(cells))
               ELSE Panic /\ UNCHANGED <<upvalues, cells, closes>>
    /\ last' = CurOp
    /\ UNCHANGED <<progVars, insts, acts, nact, captured>>

\* The loop of Op::Constant over block.ups: acc = [ok, ups, upvalues, cells].
RECURSIVE Materialize(_, _, _, _)
Materialize(desc, offset, stk, acc) ==
    IF desc = <<>> \/ ~acc.ok THEN acc
    ELSE LET e == Head(desc)
         IN IF e.is_up
            THEN IF /\ offset < Len(stk)
                    /\ stk[offset + 1].tag = "Function"
                    /\ e.slot < Len(stk[offset + 1].ups)
                 THEN Materialize(Tail(desc), offset, stk,
                        [acc EXCEPT !.ups = Append(@, stk[offset + 1].ups[e.slot + 1])])
                 ELSE [acc EXCEPT !.ok = FALSE]
            ELSE LET f == find_upvalue(acc.upvalues, acc.cells, offset + e.slot)
                 IN Materialize(Tail(desc), offset, stk,
                        [ok |-> TRUE, ups |-> Append(acc.ups, f.cell),
                         upvalues |-> f.upvalues, cells |-> f.cells])

OpConstant ==
    /\ At("Constant")
    /\ LET value == CurOp.value
           offset == TopFrame.stack_offset
       IN IF value.tag = "Function"
          THEN LET desc == blocks[value.block].ups
                   m == Materialize(desc, offset, stack,
                          [ok |-> TRUE, ups |-> <<>>, upvalues |-> upvalues,
                           cells |-> cells])
               IN IF m.ok
                  THEN /\ Continue(Append(stack, Function(m.ups, value.block)))
                       /\ upvalues' = m.upvalues
                       /\ cells' = m.cells
                       /\ closes' = ClosesAfter(<<>>, Len(m.cells))
                       /\ captured' = captured \o CaptureLog(desc, m.ups, offset)
                  ELSE Panic /\ UNCHANGED <<upvalues, cells, closes, captured>>
          ELSE /\ Continue(Append(stack, value))
               /\ UNCHANGED <<upvalues, cells, closes, captured>>
    /\ last' = CurOp
    /\ UNCHANGED <<progVars, insts, acts, nact>>

\* blobs[ty].name_to_field.get(&field).unwrap().0 is in range of the vector.
FieldOk(inst, field) ==
    /\ inst.blob < Len(blobs)
    /\ field \in DOMAIN blobs[inst.blob + 1].name_to_field
    /\ blobs[inst.blob + 1].name_to_field[field].slot < Len(insts[inst.ref])

\* Every field name resolved to the first slot of the vector.
FieldSlot_first(inst, field) == 0

FieldSlot(inst, field) == blobs[inst.blob + 1].name_to_field[field].slot

OpGet ==
    /\ At("Get")
    /\ IF Len(stack) = 0 THEN Panic
       ELSE LET inst == stack[Len(stack)]
            IN IF inst.tag = "BlobInstance"
               THEN IF FieldOk(inst, CurOp.field)
                    THEN Continue(Append(Front(stack),
                             insts[inst.ref][FieldSlot(inst, CurOp.field) + 1]))
                    ELSE Panic
               ELSE Raise(Front(stack),
                          RuntimeTypeError(Get(CurOp.field), <<inst>>), "None")
    /\ last' = CurOp
    /\ HeapSame /\ UNCHANGED <<progVars, histVars>>

OpSet ==
    /\ At("Set")
    /\ IF Len(stack) = 0 THEN Panic /\ UNCHANGED insts
       ELSE IF Len(stack) = 1 THEN Panic /\ UNCHANGED insts
       ELSE LET value == stack[Len(stack)]
                inst == stack[Len(stack) - 1]
                rest == SubSeq(stack, 1, Len(stack) - 2)
            IN IF inst.tag = "BlobInstance"
               THEN IF FieldOk(inst, CurOp.field)
                    THEN /\ Continue(rest)
                         /\ insts' = [insts EXCEPT
                               ![inst.ref][FieldSlot(inst, CurOp.field) + 1] = value]
                    ELSE Panic /\ UNCHANGED insts
               ELSE /\ Raise(rest, RuntimeTypeError(Get(CurOp.field), <<inst>>), "None")
                    /\ UNCHANGED insts
    /\ last' = CurOp
    /\ UNCHANGED <<progVars, upvalues, cells, histVars>>

\* An opcode that pops one operand and pushes Result(a).
Unary(r, rest, a) ==
    IF r.kind = "ok" THEN Continue(Append(rest, r.value))
    ELSE IF r.kind = "type" THEN Raise(rest, RuntimeTypeError(CurOp, <<a>>), "None")
    ELSE Panic

\* An opcode that takes pop_twice() and pushes Result(a, b).
Binary(r, p) ==
    IF r.kind = "ok" THEN Continue(Append(p.stack, r.value))
    ELSE IF r.kind = "type"
         THEN Raise(p.stack, RuntimeTypeError(CurOp, <<p.a, p.b>>), "None")
    ELSE Panic

OpNeg ==
    /\ At("Neg")
    /\ IF Len(stack) = 0 THEN Panic
       ELSE Unary(NegResult(stack[Len(stack)]), Front(stack), stack[Len(stack)])
    /\ last' = CurOp
    /\ HeapSame /\ UNCHANGED <<progVars, histVars>>

OpAdd ==
    /\ At("Add")
    /\ IF Len(stack) < 2 THEN Panic
       ELSE LET p == pop_twice(stack) IN Binary(AddResult(p.a, p.b), p)
    /\ last' = CurOp
    /\ HeapSame /\ UNCHANGED <<progVars, histVars>>

OpSub ==
    /\ At("Sub")
    /\ IF Len(stack) < 2 THEN Panic
       ELSE LET p == pop_twice(stack) IN Binary(SubResult(p.a, p.b), p)
    /\ last' = CurOp
    /\ HeapSame /\ UNCHANGED <<progVars, histVars>>

OpMul ==
    /\ At("Mul")
    /\ IF Len(stack) < 2 THEN Panic
       ELSE LET p == pop_twice(stack) IN Binary(MulResult(p.a, p.b), p)
    /\ last' = CurOp
    /\ HeapSame /\ UNCHANGED <<progVars, histVars>>

OpDiv ==
    /\ At("Div")
    /\ IF Len(stack) < 2 THEN Panic
       ELSE LET p == pop_twice(stack) IN Binary(DivResult(p.a, p.b), p)
    /\ last' = CurOp
    /\ HeapSame /\ UNCHANGED <<progVars, histVars>>

OpEqual ==
    /\ At("Equal")
    /\ IF Len(stack) < 2 THEN Panic
       ELSE LET p == pop_twice(stack) IN Binary(EqualResult(p.a, p.b), p)
    /\ last' = CurOp
    /\ HeapSame /\ UNCHANGED <<progVars, histVars>>

OpLess ==
    /\ At("Less")
    /\ IF Len(stack) < 2 THEN Panic
       ELSE LET p == pop_twice(stack) IN Binary(LessResult(p.a, p.b), p)
    /\ last' = CurOp
    /\ HeapSame /\ UNCHANGED <<progVars, histVars>>

OpGreater ==
    /\ At("Greater")
    /\ IF Len(stack) < 2 THEN Panic
       ELSE LET p == pop_twice(stack) IN Binary(GreaterResult(p.a, p.b), p)
    /\ last' = CurOp
    /\ HeapSame /\ UNCHANGED <<progVars, histVars>>

OpAnd ==
    /\ At("And")
    /\ IF Len(stack) < 2 THEN Panic
       ELSE LET p == pop_twice(stack) IN Binary(AndResult(p.a, p.b), p)
    /\ last' = CurOp
    /\ HeapSame /\ UNCHANGED <<progVars, histVars>>

OpOr ==
    /\ At("Or")
    /\ IF Len(stack) < 2 THEN Panic
       ELSE LET p == pop_twice(stack) IN Binary(OrResult(p.a, p.b), p)
    /\ last' = CurOp
    /\ HeapSame /\ UNCHANGED <<progVars, histVars>>

OpNot ==
    /\ At("Not")
    /\ IF Len(stack) = 0 THEN Panic
       ELSE Unary(NotResult(stack[Len(stack)]), Front(stack), stack[Len(stack)])
    /\ last' = CurOp
    /\ HeapSame /\ UNCHANGED <<progVars, histVars>>

OpJmp ==
    /\ At("Jmp")
    /\ stack' = stack
    /\ frames' = [frames EXCEPT ![Len(frames)].ip = CurOp.target]
    /\ UNCHANGED <<status, err>>
    /\ last' = CurOp
    /\ HeapSame /\ UNCHANGED <<progVars, histVars>>

\* A test that takes every value but Bool(true) for false.
IsFalse_falsy(stk) ==
    Len(stk) > 0 /\ ~(stk[Len(stk)].tag = "Bool" /\ stk[Len(stk)].b)

\* self.stack.pop() of JmpFalse and Assert: None on an empty stack, no panic.
IsFalse(stk) == Len(stk) > 0 /\ stk[Len(stk)].tag = "Bool" /\ ~stk[Len(stk)].b
Popped(stk) == IF Len(stk) = 0 THEN stk ELSE Front(stk)

OpJmpFalse ==
    /\ At("JmpFalse")
    /\ IF IsFalse(stack)
       THEN /\ stack' = Front(stack)
            /\ frames' = [frames EXCEPT ![Len(frames)].ip = CurOp.target]
            /\ UNCHANGED <<status, err>>
       ELSE Continue(Popped(stack))
    /\ last' = CurOp
    /\ HeapSame /\ UNCHANGED <<progVars, histVars>>

OpAssert ==
    /\ At("Assert")
    /\ IF IsFalse(stack)
       THEN Raise(Front(stack), [k |-> "Assert"], "None")
       ELSE Continue(Append(Popped(stack), BoolV(TRUE)))
    /\ last' = CurOp
    /\ HeapSame /\ UNCHANGED <<progVars, histVars>>

\* &self.stack[offset] is a Function with a capture at index `slot`.
ClosureOk(stk, offset, slot) ==
    /\ offset < Len(stk)
    /\ stk[offset + 1].tag = "Function"
    /\ slot < Len(stk[offset + 1].ups)

OpReadUpvalue ==
    /\ At("ReadUpvalue")
    /\ LET offset == TopFrame.stack_offset
       IN IF ClosureOk(stack, offset, CurOp.slot)
          THEN LET g == UpGet(cells[stack[offset + 1].ups[CurOp.slot + 1]], stack)
               IN IF g.ok THEN Continue(Append(stack, g.value)) ELSE Panic
          ELSE Panic
    /\ last' = CurOp
    /\ HeapSame /\ UNCHANGED <<progVars, histVars>>

OpAssignUpvalue ==
    /\ At("AssignUpvalue")
    /\ LET offset == TopFrame.stack_offset
       IN IF Len(stack) > 0 /\ ClosureOk(Front(stack), offset, CurOp.slot)
          THEN LET c == stack[offset + 1].ups[CurOp.slot + 1]
                   u == UpSet(cells[c], Front(stack), stack[Len(stack)])
               IN IF u.ok
                  THEN /\ Continue(u.stack)
                       /\ cells' = [cells EXCEPT ![c] = u.cell]
                  ELSE Panic /\ UNCHANGED cells
          ELSE Panic /\ UNCHANGED cells
    /\ last' = CurOp
    /\ UNCHANGED <<progVars, upvalues, insts, histVars>>

OpReadLocal ==
    /\ At("ReadLocal")
    /\ LET slot == TopFrame.stack_offset + CurOp.slot
       IN IF slot < Len(stack) THEN Continue(Append(stack, stack[slot + 1]))
          ELSE Panic
    /\ last' = CurOp
    /\ HeapSame /\ UNCHANGED <<progVars, histVars>>

OpAssignLocal ==
    /\ At("AssignLocal")
    /\ LET slot == TopFrame.stack_offset + CurOp.slot
       IN IF Len(stack) > 0 /\ slot < Len(stack) - 1
          THEN Continue([Front(stack) EXCEPT ![slot + 1] = stack[Len(stack)]])
          ELSE Panic
    /\ last' = CurOp
    /\ HeapSame /\ UNCHANGED <<progVars, histVars>>

OpDefine ==
    /\ At("Define")
    /\ Continue(stack)
    /\ last' = CurOp
    /\ HeapSame /\ UNCHANGED <<progVars, histVars>>

OpPrint ==
    /\ At("Print")
    /\ IF Len(stack) = 0 THEN Panic ELSE Continue(Front(stack))
    /\ last' = CurOp
    /\ HeapSame /\ UNCHANGED <<progVars, histVars>>

\* The host functions of the extern table (RustFunction): what each returns
\* for an argument slice and the typecheck flag.
ExternApply(f, args, typecheck) ==
    IF f = "argc" THEN [ok |-> TRUE, value |-> IntV(Len(args))]
    ELSE IF f = "first"
         THEN (IF Len(args) > 0 THEN [ok |-> TRUE, value |-> args[1]]
               ELSE [ok |-> FALSE, value |-> [k |-> "ExternTypeMismatch"]])
    ELSE IF f = "flag" THEN [ok |-> TRUE, value |-> BoolV(typecheck)]
    ELSE [ok |-> FALSE, value |-> [k |-> "ExternTypeMismatch"]]

\* A slice handed to the host function that starts at the callee.
ExternArgs_with_callee(stk, new_base) == SubSeq(stk, new_base + 1, Len(stk))

\* The slice handed to the host function: &self.stack[new_base+1..].
ExternArgs(stk, new_base) == SubSeq(stk, new_base + 2, Len(stk))

NumFields(blob) == Cardinality(DOMAIN blob.name_to_field)

\* Op::Call on a Blob: self.stack.pop(); self.stack.push(instance).
CallBlobStack(stk, new_base, inst) == Append(Front(stk), inst)

\* The arity test of Op::Call on a Function, always passing.
ArityMismatch_never(block, num_args) == FALSE

\* The arity test of Op::Call on a Function: args.len() != num_args.
ArityMismatch(block, num_args) == Len(BlockArgs(block)) # num_args

\* The frame Op::Call pushes, with the stack length as its base.
NewFrame_top(callee, new_base, stk) ==
    [stack_offset |-> Len(stk) - 1, block |-> callee.block, ip |-> 0]

\* The frame Op::Call pushes for a Function callee.
NewFrame(callee, new_base, stk) ==
    [stack_offset |-> new_base, block |-> callee.block, ip |-> 0]

\* Frames beyond MaxFrames are not explored (the recursion depth of the
\* source is bounded by memory alone).
FrameRoom ==
    LET new_base == Len(stack) - 1 - CurOp.n
    IN (new_base >= 0 /\ stack[new_base + 1].tag = "Function")
          => Len(frames) < MaxFrames

OpCall ==
    /\ At("Call")
    /\ FrameRoom
    /\ LET num_args == CurOp.n
           new_base == Len(stack) - 1 - num_args
       IN IF new_base < 0
          THEN Panic /\ UNCHANGED <<insts, acts, nact>>
          ELSE LET callee == stack[new_base + 1]
               IN CASE callee.tag = "Blob" ->
                         IF callee.blob < Len(blobs)
                         THEN /\ Continue(CallBlobStack(stack, new_base,
                                    BlobInstance(callee.blob, Len(insts) + 1)))
                              /\ insts' = Append(insts,
                                    [i \in 1..NumFields(blobs[callee.blob + 1]) |-> Nil])
                              /\ UNCHANGED <<acts, nact>>
                         ELSE Panic /\ UNCHANGED <<insts, acts, nact>>
                    [] callee.tag = "Function" ->
                         IF ArityMismatch(blocks[callee.block], num_args)
                         THEN /\ Raise(stack, InvalidProgram,
                                       "Invalid number of arguments")
                              /\ UNCHANGED <<insts, acts, nact>>
                         ELSE /\ stack' = stack
                              /\ frames' = Append(frames, NewFrame(callee, new_base, stack))
                              /\ UNCHANGED <<status, err, insts>>
                              /\ nact' = nact + 1
                              /\ acts' = Append(acts, nact + 1)
                    [] callee.tag = "ExternFunction" ->
                         IF callee.ext < Len(extern_functions)
                         THEN LET res == ExternApply(extern_functions[callee.ext + 1],
                                            ExternArgs(stack, new_base), FALSE)
                              IN /\ IF res.ok
                                    THEN Continue(Append(SubSeq(stack, 1, new_base),
                                                         res.value))
                                    ELSE Raise(stack, res.value,
                                               "Wrong arguments to external function")
                                 /\ UNCHANGED <<insts, acts, nact>>
                         ELSE Panic /\ UNCHANGED <<insts, acts, nact>>
                    [] OTHER -> Panic /\ UNCHANGED <<insts, acts, nact>>
    /\ last' = CurOp
    /\ UNCHANGED <<progVars, upvalues, cells, captured, closes>>

\* The first slot of the sweep of Op::Return, starting at the frame's base.
SweepStart_base(offset) == offset

\* The first slot of the sweep of Op::Return: last.stack_offset + 1.
SweepStart(offset) == offset + 1

\* A Return that drops no upvalue.
SweepUpvalues_none(slot, stk, acc) == acc

\* The sweep of Op::Return: for slot in from..stk.len(), drop the upvalue of
\* every registered slot with the slot's value.  acc = [upvalues, cells, dropped].
RECURSIVE SweepUpvalues(_, _, _)
SweepUpvalues(slot, stk, acc) ==
    IF slot >= Len(stk) THEN acc
    ELSE IF slot \in DOMAIN acc.upvalues
         THEN LET d == drop_upvalue(acc.upvalues, acc.cells, slot, stk[slot + 1])
              IN SweepUpvalues(slot + 1, stk,
                    [upvalues |-> d.upvalues, cells |-> d.cells,
                     dropped |-> Append(acc.dropped, d.cell)])
    ELSE SweepUpvalues(slot + 1, stk, acc)

OpReturn ==
    /\ At("Return")
    /\ LET lastf == TopFrame
           rest == Front(frames)
       IN IF rest = <<>>
          THEN /\ frames' = rest
               /\ acts' = Front(acts)
               /\ status' = "done"
               /\ UNCHANGED <<stack, err, upvalues, cells, closes>>
          ELSE IF Len(stack) = 0 \/ lastf.stack_offset >= Len(stack) - 1
          THEN Panic /\ UNCHANGED <<upvalues, cells, closes, acts>>
          ELSE LET stk == [Front(stack) EXCEPT ![lastf.stack_offset + 1] = stack[Len(stack)]]
                   sw == SweepUpvalues(SweepStart(lastf.stack_offset), stk,
                            [upvalues |-> upvalues, cells |-> cells, dropped |-> <<>>])
               IN /\ stack' = Truncate(stk, lastf.stack_offset + 1)
                  /\ frames' = [rest EXCEPT ![Len(rest)].ip = @ + 1]
                  /\ acts' = Front(acts)
                  /\ upvalues' = sw.upvalues
                  /\ cells' = sw.cells
                  /\ closes' = ClosesAfter(sw.dropped, Len(cells))
                  /\ UNCHANGED <<status, err>>
    /\ last' = CurOp
    /\ UNCHANGED <<progVars, insts, nact, captured>>

\* VM::op past the end of the block: ops[ip] is out of bounds.
OpOutOfRange ==
    /\ Running /\ ~OpInRange
    /\ Panic
    /\ last' = [op |-> "none"]
    /\ HeapSame /\ UNCHANGED <<progVars, histVars>>

\* The host calls run() again after a Yield.
Resume ==
    /\ status = "yield"
    /\ status' = "running"
    /\ last' = [op |-> "run"]
    /\ UNCHANGED <<stack, frames, err>>
    /\ HeapSame /\ UNCHANGED <<progVars, histVars>>

-----------------------------------------------------------------------------
(* Types of values (lib.rs) *)

\* Value::identity
identity(v) ==
    IF v.tag = "Float" THEN FloatV(1, 1)
    ELSE IF v.tag = "Int" THEN IntV(1)
    ELSE IF v.tag = "Bool" THEN BoolV(TRUE)
    ELSE v

\* Value::as_type; a Function has the type of its block.
as_type(v, blks) ==
    CASE v.tag = "BlobInstance" -> TBlobInstance(v.blob)
      [] v.tag = "Blob" -> TBlob(v.blob)
      [] v.tag = "Float" -> TFloat
      [] v.tag = "Int" -> TInt
      [] v.tag = "Bool" -> TBool
      [] v.tag = "String" -> TString
      [] v.tag = "Function" -> blks[v.block].ty
      [] v.tag = "ExternFunction" -> TVoid
      [] v.tag = "Unkown" -> TUnknown
      [] OTHER -> TVoid

\* impl From<&Value> for Type
TypeFrom(v, blks) ==
    CASE v.tag = "BlobInstance" -> TBlobInstance(v.blob)
      [] v.tag = "Blob" -> TBlob(v.blob)
      [] v.tag = "Int" -> TInt
      [] v.tag = "Float" -> TFloat
      [] v.tag = "Bool" -> TBool
      [] v.tag = "String" -> TString
      [] v.tag = "Function" -> blks[v.block].ty
      [] OTHER -> TVoid

\* impl PartialEq for Type: UnknownType equals nothing, itself included.
RECURSIVE TypeEq(_, _)
TypeEq(a, b) ==
    CASE a.t = "Void" /\ b.t = "Void" -> TRUE
      [] a.t = "BlobInstance" /\ b.t = "BlobInstance" -> a.id = b.id
      [] a.t = "Blob" /\ b.t = "Blob" -> a.id = b.id
      [] a.t = "Int" /\ b.t = "Int" -> TRUE
      [] a.t = "Float" /\ b.t = "Float" -> TRUE
      [] a.t = "Bool" /\ b.t = "Bool" -> TRUE
      [] a.t = "String" /\ b.t = "String" -> TRUE
      [] a.t = "Function" /\ b.t = "Function" ->
            /\ Len(a.args) = Len(b.args)
            /\ \A i \in 1..Len(a.args) : TypeEq(a.args[i], b.args[i])
            /\ TypeEq(a.ret, b.ret)
      [] OTHER -> FALSE

\* A comparison of type vectors by their lengths alone.
TypesEq_lengths(as, bs) == Len(as) = Len(bs)

\* Vec<Type> == Vec<Type>
TypesEq(as, bs) ==
    /\ Len(as) = Len(bs)
    /\ \A i \in 1..Len(as) : TypeEq(as[i], bs[i])

\* Type::is_unkown
is_unkown(ty) == ty.t = "UnknownType"

\* Block::from_type: an empty block "/empty/" of the type.
from_type(ty) ==
    [ty |-> ty, ups |-> <<>>, ops |-> <<>>, file |-> "",
     line_offsets |-> [i \in {} |-> 0]]

\* Type::as_value: the value and the block heap, which gains the block made
\* for a Function type.  The Rc of a BlobInstance made here is a new empty
\* vector that nothing reads: ref 0.
as_value(ty, blks) ==
    CASE ty.t = "Void" -> [value |-> Nil, blocks |-> blks]
      [] ty.t = "Blob" -> [value |-> BlobV(ty.id), blocks |-> blks]
      [] ty.t = "BlobInstance" -> [value |-> BlobInstance(ty.id, 0), blocks |-> blks]
      [] ty.t = "UnknownType" -> [value |-> Unkown, blocks |-> blks]
      [] ty.t = "Int" -> [value |-> IntV(1), blocks |-> blks]
      [] ty.t = "Float" -> [value |-> FloatV(1, 1), blocks |-> blks]
      [] ty.t = "Bool" -> [value |-> BoolV(TRUE), blocks |-> blks]
      [] ty.t = "String" -> [value |-> StringV(<<>>), blocks |-> blks]
      [] OTHER -> [value |-> Function(<<>>, Len(blks) + 1),
                   blocks |-> Append(blks, from_type(ty))]

-----------------------------------------------------------------------------
(* VM::check_op: what each arm does to the stack and the blocks *)

TypeError(op, types) == [k |-> "TypeError", op |-> op, types |-> types]

\* The outcomes of check_op: Ok(()), an Err built by error!, a panic.
TcOk(stk, blks) ==
    [kind |-> "ok", stack |-> stk, blocks |-> blks,
     ek |-> [k |-> "None"], message |-> "None"]
TcErr(stk, blks, ek, message) ==
    [kind |-> "err", stack |-> stk, blocks |-> blks, ek |-> ek, message |-> message]
TcPanic ==
    [kind |-> "panic", stack |-> <<>>, blocks |-> <<>>,
     ek |-> [k |-> "None"], message |-> "None"]

\* A refinement that leaves every entry as it is and never objects.
Refine_none(ups, types, i) == [ok |-> TRUE, ups |-> ups, at |-> 0]

\* A refinement that overwrites known types too and never objects.
Refine_overwrite(ups, types, i) ==
    [ok |-> TRUE,
     ups |-> [k \in DOMAIN ups |->
                IF ups[k].is_up THEN ups[k] ELSE [ups[k] EXCEPT !.ty = types[k]]],
     at |-> 0]

\* The second loop of Op::Constant in check_op over block.ups from index i:
\* an Unknown entry takes the suggested type, a known one must equal it.
RECURSIVE Refine(_, _, _)
Refine(ups, types, i) ==
    IF i > Len(ups) THEN [ok |-> TRUE, ups |-> ups, at |-> 0]
    ELSE IF ups[i].is_up THEN Refine(ups, types, i + 1)
    ELSE IF is_unkown(ups[i].ty)
         THEN Refine([ups EXCEPT ![i].ty = types[i]], types, i + 1)
    ELSE IF ~TypeEq(ups[i].ty, types[i]) THEN [ok |-> FALSE, ups |-> ups, at |-> i]
    ELSE Refine(ups, types, i + 1)

\* check_op, Op::Constant.  The error is built while the literal's block is
\* mutably borrowed: self.error() borrows the frame's block and panics when
\* that is the same block.
CheckConstant(op, stk, blks, cur) ==
    IF op.value.tag = "Function"
    THEN LET b == op.value.block
             stk1 == Append(stk, Function(<<>>, b))
             ups == blks[b].ups
             types == [i \in 1..Len(ups) |->
                         IF ups[i].is_up \/ ups[i].slot >= Len(stk1) THEN ups[i].ty
                         ELSE as_type(stk1[ups[i].slot + 1], blks)]
             r == Refine(ups, types, 1)
             blks1 == [blks EXCEPT ![b].ups = r.ups]
         IN IF \E i \in 1..Len(ups) : ~ups[i].is_up /\ ups[i].slot >= Len(stk1)
            THEN TcPanic
            ELSE IF r.ok THEN TcOk(stk1, blks1)
            ELSE IF b = cur THEN TcPanic
            ELSE TcErr(stk1, blks1, TypeError(op, <<ups[r.at].ty, types[r.at]>>),
                       "Failed to infer type.")
    ELSE TcOk(Append(stk, op.value), blks)

\* self.blobs[ty].name_to_field.get(&field).unwrap() finds the field.
HasField(inst, field) ==
    /\ inst.blob < Len(blobs)
    /\ field \in DOMAIN blobs[inst.blob + 1].name_to_field

FieldType(inst, field) == blobs[inst.blob + 1].name_to_field[field].ty

\* check_op, Op::Get
CheckGet(op, stk, blks) ==
    IF Len(stk) = 0 THEN TcPanic
    ELSE LET inst == stk[Len(stk)]
         IN IF inst.tag = "BlobInstance"
            THEN IF HasField(inst, op.field)
                 THEN LET av == as_value(FieldType(inst, op.field), blks)
                      IN TcOk(Append(Front(stk), av.value), av.blocks)
                 ELSE TcPanic
            ELSE TcErr(Append(Front(stk), Nil), blks,
                       RuntimeTypeError(Get(op.field), <<inst>>), "None")

\* check_op, Op::Set
CheckSet(op, stk, blks) ==
    IF Len(stk) < 2 THEN TcPanic
    ELSE LET value == stk[Len(stk)]
             inst == stk[Len(stk) - 1]
             rest == SubSeq(stk, 1, Len(stk) - 2)
         IN IF inst.tag = "BlobInstance"
            THEN IF HasField(inst, op.field)
                 THEN IF ~TypeEq(FieldType(inst, op.field), TypeFrom(value, blks))
                      THEN TcErr(rest, blks,
                                 RuntimeTypeError(Set(op.field), <<inst>>), "None")
                      ELSE TcOk(rest, blks)
                 ELSE TcPanic
            ELSE TcErr(rest, blks, RuntimeTypeError(Set(op.field), <<inst>>), "None")

\* check_op, Op::PopUpvalue and Op::Print: pop().unwrap()
CheckPop(stk, blks) == IF Len(stk) = 0 THEN TcPanic ELSE TcOk(Front(stk), blks)

\* check_op, Op::ReadUpvalue
CheckReadUpvalue(op, stk, blks, cur) ==
    IF op.slot >= Len(blks[cur].ups) THEN TcPanic
    ELSE LET av == as_value(blks[cur].ups[op.slot + 1].ty, blks)
         IN TcOk(Append(stk, av.value), av.blocks)

\* check_op, Op::AssignUpvalue
CheckAssignUpvalue(op, stk, blks, cur) ==
    IF op.slot >= Len(blks[cur].ups) \/ Len(stk) = 0 THEN TcPanic
    ELSE LET var == blks[cur].ups[op.slot + 1].ty
             up == as_type(stk[Len(stk)], blks)
         IN IF ~TypeEq(var, up)
            THEN TcErr(Front(stk), blks, TypeError(op, <<var, up>>),
                       "Incorrect type for upvalue.")
            ELSE TcOk(Front(stk), blks)

\* check_op, Op::Return: no frame is popped.
CheckReturn(op, stk, blks, cur) ==
    IF Len(stk) = 0 \/ blks[cur].ty.t # "Function" THEN TcPanic
    ELSE LET a == as_type(stk[Len(stk)], blks)
             ret == BlockRet(blks[cur])
         IN IF ~TypeEq(a, ret)
            THEN TcErr(Front(stk), blks, TypeError(op, <<a, ret>>),
                       "Not matching return type.")
            ELSE TcOk(Front(stk), blks)

\* A Define that holds Unknown to the comparison of every other type.
CheckDefine_strict(op, stk, blks) ==
    IF Len(stk) = 0 THEN TcPanic
    ELSE LET top_type == as_type(stk[Len(stk)], blks)
         IN IF ~TypeEq(op.ty, top_type)
            THEN TcErr(stk, blks, TypeError(op, <<op.ty, top_type>>),
                       "Tried to assign a type")
            ELSE TcOk(stk, blks)

\* check_op, Op::Define
CheckDefine(op, stk, blks) ==
    IF Len(stk) = 0 THEN TcPanic
    ELSE LET top_type == as_type(stk[Len(stk)], blks)
         IN IF is_unkown(op.ty) /\ ~TypeEq(top_type, TUnknown) THEN TcOk(stk, blks)
            ELSE IF ~TypeEq(op.ty, top_type)
                 THEN TcErr(stk, blks, TypeError(op, <<op.ty, top_type>>),
                            "Tried to assign a type")
            ELSE TcOk(stk, blks)

\* check_op, Op::JmpFalse
CheckJmpFalse(op, stk, blks) ==
    IF Len(stk) = 0 THEN TcPanic
    ELSE IF stk[Len(stk)].tag = "Bool" THEN TcOk(Front(stk), blks)
    ELSE TcErr(Front(stk), blks, TypeError(op, <<as_type(stk[Len(stk)], blks)>>), "None")

\* A callee that is no Blob, Function or ExternFunction taken as unreachable.
CallNonFunction_unreachable(op, stk, blks, callee) == TcPanic

\* check_op, Op::Call, the `_` arm of the match on the callee.
CallNonFunction(op, stk, blks, callee) ==
    TcErr(stk, blks, TypeError(op, <<as_type(callee, blks)>>),
          "Tried to call non-function")

\* check_op, Op::Call: no frame is pushed.
CheckCall(op, stk, blks) ==
    LET new_base == Len(stk) - 1 - op.n
    IN IF new_base < 0 THEN TcPanic
       ELSE LET callee == stk[new_base + 1]
                below == SubSeq(stk, 1, new_base)
            IN CASE callee.tag = "Blob" ->
                      IF /\ callee.blob < Len(blobs)
                         /\ \A f \in DOMAIN blobs[callee.blob + 1].name_to_field :
                               blobs[callee.blob + 1].name_to_field[f].slot
                                  < NumFields(blobs[callee.blob + 1])
                      THEN TcOk(Append(Front(stk), BlobInstance(callee.blob, 0)), blks)
                      ELSE TcPanic
                 [] callee.tag = "Function" ->
                      IF blks[callee.block].ty.t # "Function" THEN TcPanic
                      ELSE LET args == BlockArgs(blks[callee.block])
                               stack_args ==
                                   [i \in 1..Len(args) |->
                                      as_type(stk[Len(stk) - Len(args) + i], blks)]
                               av == as_value(BlockRet(blks[callee.block]), blks)
                           IN IF ArityMismatch(blks[callee.block], op.n)
                              THEN TcErr(stk, blks, InvalidProgram,
                                         "Invalid number of arguments")
                              ELSE IF ~TypesEq(args, stack_args)
                                   THEN TcErr(stk, blks, TypeError(op, <<>>),
                                              "Expected args of other types")
                              ELSE TcOk(Append(below, av.value), av.blocks)
                 [] callee.tag = "ExternFunction" ->
                      IF callee.ext < Len(extern_functions)
                      THEN LET res == ExternApply(extern_functions[callee.ext + 1],
                                         ExternArgs(stk, new_base), FALSE)
                           IN IF res.ok THEN TcOk(Append(below, res.value), blks)
                              ELSE TcErr(Append(below, Nil), blks, res.value,
                                         "Wrong arguments to external function")
                      ELSE TcPanic
                 [] OTHER -> CallNonFunction(op, stk, blks, callee)

\* The opcodes check_op hands to eval_op (its `_` arm).
EvalOps ==
    {"Illegal", "Pop", "Neg", "Add", "Sub", "Mul", "Div", "Equal", "Less",
     "Greater", "And", "Or", "Not", "Assert", "ReadLocal", "AssignLocal"}

OperatorResult(name, a, b) ==
    CASE name = "Add" -> AddResult(a, b)
      [] name = "Sub" -> SubResult(a, b)
      [] name = "Mul" -> MulResult(a, b)
      [] name = "Div" -> DivResult(a, b)
      [] name = "Equal" -> EqualResult(a, b)
      [] name = "Less" -> LessResult(a, b)
      [] name = "Greater" -> GreaterResult(a, b)
      [] name = "And" -> AndResult(a, b)
      [] OTHER -> OrResult(a, b)

\* check_op, the `_` arm: eval_op on the typecheck stack, in the one frame of
\* typecheck_block (stack_offset 0).
CheckEval(op, stk, blks) ==
    CASE op.op = "Illegal" -> TcErr(stk, blks, InvalidProgram, "None")
      [] op.op = "Pop" -> CheckPop(stk, blks)
      [] op.op \in {"Neg", "Not"} ->
            IF Len(stk) = 0 THEN TcPanic
            ELSE LET a == stk[Len(stk)]
                     r == IF op.op = "Neg" THEN NegResult(a) ELSE NotResult(a)
                 IN IF r.kind = "ok" THEN TcOk(Append(Front(stk), r.value), blks)
                    ELSE IF r.kind = "type"
                         THEN TcErr(Front(stk), blks, RuntimeTypeError(op, <<a>>), "None")
                    ELSE TcPanic
      [] op.op = "Assert" ->
            IF IsFalse(stk) THEN TcErr(Front(stk), blks, [k |-> "Assert"], "None")
            ELSE TcOk(Append(Popped(stk), BoolV(TRUE)), blks)
      [] op.op = "ReadLocal" ->
            IF op.slot < Len(stk) THEN TcOk(Append(stk, stk[op.slot + 1]), blks)
            ELSE TcPanic
      [] op.op = "AssignLocal" ->
            IF Len(stk) > 0 /\ op.slot < Len(stk) - 1
            THEN TcOk([Front(stk) EXCEPT ![op.slot + 1] = stk[Len(stk)]], blks)
            ELSE TcPanic
      [] OTHER ->
            IF Len(stk) < 2 THEN TcPanic
            ELSE LET p == pop_twice(stk)
                     r == OperatorResult(op.op, p.a, p.b)
                 IN IF r.kind = "ok" THEN TcOk(Append(p.stack, r.value), blks)
                    ELSE IF r.kind = "type"
                         THEN TcErr(p.stack, blks,
                                    RuntimeTypeError(op, <<p.a, p.b>>), "None")
                    ELSE TcPanic

-----------------------------------------------------------------------------
(* Programs: the Prog values handed to VM::init *)

Prog(bs, bl, fs) == [blocks |-> bs, blobs |-> bl, functions |-> fs]

FnVoid == TFunction(<<>>, TVoid)
FnLit(b) == Function(<<>>, b)
Ret == Op0("Return")
Epilogue == <<Constant(Nil), Ret>>

\* A closure that reads its capture and one that writes v to it.
Reader(cap) == Blk(TFunction(<<>>, TInt), <<Up(cap, FALSE, TInt)>>,
                   <<ReadUpvalue(0), Ret>>)
Writer(cap, v) == Blk(FnVoid, <<Up(cap, FALSE, TInt)>>,
                      <<Constant(IntV(v)), AssignUpvalue(0), Constant(Nil), Ret>>)
\* The counter closure of tests::fun::returning_closures: x = x + 1; ret x.
Counter(cap) == Blk(TFunction(<<>>, TInt), <<Up(cap, FALSE, TInt)>>,
                    <<ReadUpvalue(0), Constant(IntV(1)), Op0("Add"),
                      AssignUpvalue(0), ReadUpvalue(0), Ret>>)

\* tests::fun::returning_closures with both activations of f at one base:
\* f declares x, makes the counter closure over local `cap` and returns it,
\* from a copy (ret g) or straight from the closure's own slot.
CounterProg(cap, direct) ==
    Prog(<<Blk(FnVoid, <<>>,
               <<Constant(FnLit(2)), Constant(Nil), Constant(Nil),
                 ReadLocal(1), Call(0), AssignLocal(2),
                 ReadLocal(1), Call(0), AssignLocal(3),
                 ReadLocal(2), Call(0), Op0("Pop"),
                 ReadLocal(3), Call(0), Op0("Pop"),
                 ReadLocal(2), Call(0), Constant(IntV(2)), Op0("Equal"),
                 Op0("Assert"), Op0("Pop")>> \o Epilogue),
           Blk(TFunction(<<>>, TFunction(<<>>, TInt)), <<>>,
               <<Constant(IntV(0)), Constant(FnLit(3))>>
               \o (IF direct THEN <<>> ELSE <<ReadLocal(2)>>) \o <<Ret>>),
           Counter(cap)>>,
         <<>>, <<>>)

\* Two closures over one local of the root frame (absolute slot 3), kept in
\* locals 1 and 2; the local leaves the stack by `leave`, the slot is then
\* declared again and captured again.
SharedProg(leave) ==
    Prog(<<Blk(FnVoid, <<>>,
               <<Constant(Nil), Constant(Nil), Constant(IntV(0)),
                 Constant(FnLit(2)), AssignLocal(1),
                 Constant(FnLit(3)), AssignLocal(2),
                 ReadLocal(2), Call(0), Op0("Pop"),
                 ReadLocal(1), Call(0), ReadLocal(3), Op0("Equal"),
                 Op0("Assert"), Op0("Pop"),
                 leave,
                 ReadLocal(2), Call(0), Op0("Pop"),
                 ReadLocal(1), Call(0), Op0("Pop"),
                 Constant(IntV(9)),
                 Constant(FnLit(2)), AssignLocal(1),
                 ReadLocal(2), Call(0), Op0("Pop"),
                 ReadLocal(1), Call(0), Op0("Pop")>> \o Epilogue),
           Reader(3), Writer(3, 5)>>,
         <<>>, <<>>)

\* A nested capture: the outer closure over root local 1, the inner one over
\* the outer's capture (is_up = true).
NestedProg ==
    Prog(<<Blk(FnVoid, <<>>,
               <<Constant(IntV(4)), Constant(FnLit(2)), Call(0), Call(0),
                 Op0("Print"), Op0("Yield"), Define(TInt)>> \o Epilogue),
           Blk(TFunction(<<>>, TFunction(<<>>, TInt)), <<Up(1, FALSE, TInt)>>,
               <<Constant(FnLit(3)), Ret>>),
           Blk(TFunction(<<>>, TInt), <<Up(0, TRUE, TInt)>>,
               <<ReadUpvalue(0), Ret>>)>>,
         <<>>, <<>>)

\* A call made while a cell of the caller is open: the root frame keeps a
\* reader over its local `rootcap` and calls f (frame base 3), which declares
\* a local, makes the counter closure over its local `cap` and returns it,
\* from a copy or straight from the closure's own slot; both closures are
\* then called.
SweepProg(rootcap, cap, direct) ==
    Prog(<<Blk(FnVoid, <<>>,
               <<Constant(IntV(4)), Constant(FnLit(3)), Constant(FnLit(2)),
                 Call(0),
                 ReadLocal(2), Call(0), Op0("Pop"),
                 ReadLocal(3), Call(0), Op0("Pop")>> \o Epilogue),
           Blk(TFunction(<<>>, TFunction(<<>>, TInt)), <<>>,
               <<Constant(IntV(0)), Constant(FnLit(4))>>
               \o (IF direct THEN <<>> ELSE <<ReadLocal(2)>>) \o <<Ret>>),
           Reader(rootcap), Counter(cap)>>,
         <<>>, <<>>)

\* Generated root blocks over closures of root local `cap`.
ClosureAlphabet ==
    {Constant(IntV(1)), Constant(FnLit(2)), Constant(FnLit(3)), Op0("Pop"),
     Op0("PopUpvalue"), ReadLocal(1), AssignLocal(1), Call(0)}

ClosureProg(cap, ops) ==
    Prog(<<Blk(FnVoid, <<>>, ops), Reader(cap), Writer(cap, 5)>>, <<>>, <<>>)

\* Generated calls: a callee, n arguments, Call(n), then a field access.
BlobOf(nf) ==
    [name |-> "A",
     name_to_field |-> [f \in {g \in {"a", "b", "c"} :
                                 (g = "a" /\ nf >= 1) \/ (g = "b" /\ nf >= 2)
                                 \/ (g = "c" /\ nf >= 3)} |->
                          [slot |-> IF f = "a" THEN 0 ELSE IF f = "b" THEN 1 ELSE 2,
                           ty |-> TInt]]]

Callees ==
    {FnLit(2), BlobV(0), BlobV(1), ExternFunction(0), ExternFunction(1),
     ExternFunction(2), ExternFunction(3), ExternFunction(4), IntV(7)}

RECURSIVE IntArgs(_)
IntArgs(n) == IF n = 0 THEN <<>> ELSE Append(IntArgs(n - 1), Constant(IntV(n)))

CallProg(callee, arity, nf, n, tail) ==
    Prog(<<Blk(FnVoid, <<>>,
               <<Constant(callee)>> \o IntArgs(n) \o <<Call(n)>> \o tail \o Epilogue),
           Blk(TFunction([i \in 1..arity |-> TInt], TInt), <<>>,
               <<Constant(IntV(3)), ReadLocal(arity), Ret>>)>>,
         <<BlobOf(nf)>>, <<"argc", "first", "fail", "flag">>)

CallTails ==
    {<<>>, <<Get("a")>>, <<Constant(IntV(2)), Set("a")>>,
     <<ReadLocal(1), ReadLocal(1), Constant(IntV(2)), Set("a"), Get("a")>>,
     <<ReadLocal(1), Constant(IntV(2)), Set("b"), Get("a")>>}

\* Field stores: a blob with fields a (of type ta) and b (Int); b is set to 7
\* through one copy of the instance, then `push` leaves a value that Set(f)
\* stores through a second copy and Get(g) reads through a third.
FieldBlob(ta) ==
    [name |-> "A",
     name_to_field |-> [f \in {"a", "b"} |->
                          IF f = "a" THEN [slot |-> 0, ty |-> ta]
                          ELSE [slot |-> 1, ty |-> TInt]]]

FieldTypes == {TInt, TBool, TString, TVoid, TUnknown}

\* One opcode per variant of Value; ReadLocal(1) pushes the instance itself.
FieldPushes ==
    {Constant(IntV(5)), Constant(BoolV(FALSE)), Constant(FloatV(1, 2)),
     Constant(StringV(<<1>>)), Constant(Nil), Constant(Unkown), Constant(BlobV(0)),
     Constant(ExternFunction(0)), Constant(FnLit(2)), ReadLocal(1)}

FieldProg(push, f, g, ta) ==
    Prog(<<Blk(FnVoid, <<>>,
               <<Constant(BlobV(0)), Call(0), ReadLocal(1), ReadLocal(1),
                 Constant(IntV(7)), Set("b"), ReadLocal(1), push, Set(f), Get(g)>>
                  \o Epilogue),
           Blk(FnVoid, <<>>, Epilogue)>>,
         <<FieldBlob(ta)>>, <<"argc">>)

\* Generated straight-line code over literals, operators and jumps.
Literals ==
    {IntV(0), IntV(2), IntV(-3), BoolV(TRUE), BoolV(FALSE), FloatV(1, 2),
     FloatV(0, 1), StringV(<<1>>), StringV(<<1, 2>>), Nil}

Operators ==
    {Op0("Add"), Op0("Sub"), Op0("Mul"), Op0("Div"), Op0("Equal"), Op0("Less"),
     Op0("Greater"), Op0("And"), Op0("Or")}

UnaryOps ==
    {Op0("Neg"), Op0("Not"), Op0("Assert"), Op0("Pop"), Op0("Print"),
     Op0("Illegal"), Op0("Unreachable"), Op0("Yield"), Jmp(3), JmpFalse(3),
     Define(TInt)}

BinaryProg(a, b, op) ==
    Prog(<<Blk(FnVoid, <<>>, <<Constant(a), Constant(b), op>> \o Epilogue)>>,
         <<>>, <<>>)

UnaryProg(a, op) ==
    Prog(<<Blk(FnVoid, <<>>, <<Constant(a), op, Op0("Pop")>> \o Epilogue)>>,
         <<>>, <<>>)

\* The locals of VM::typecheck and VM::typecheck_block: the number of blocks
\* of the program, the index of the block being checked or checked next,
\* whether typecheck_block is inside its loop, its `errors` vector (cur), the
\* `errors` vector of typecheck, and as history the vector each finished
\* typecheck_block returned, the check_op calls made for the current block and
\* the capture entries refined so far.
NoTypecheck ==
    [nblocks |-> 0, block |-> 0, inblock |-> FALSE, cur |-> <<>>,
     errors |-> <<>>, per_block |-> <<>>, steps |-> 0, refined |-> {}]

\* VM::new followed by VM::init(prog).
InitVM(prog) ==
    /\ blocks = prog.blocks
    /\ blobs = prog.blobs
    /\ extern_functions = prog.functions
    /\ stack = <<FnLit(1)>>
    /\ frames = <<[stack_offset |-> 0, block |-> 1, ip |-> 0]>>
    /\ upvalues = [s \in {} |-> 0]
    /\ cells = <<>>
    /\ insts = <<>>
    /\ status = "running"
    /\ err = NoError
    /\ acts = <<0>>
    /\ nact = 0
    /\ captured = <<>>
    /\ closes = <<>>
    /\ last = [op |-> "init"]
    /\ tc = NoTypecheck

Init ==
    \/ \E cap \in 0..2, direct \in BOOLEAN : InitVM(CounterProg(cap, direct))
    \/ \E leave \in {Op0("Pop"), Op0("PopUpvalue")} : InitVM(SharedProg(leave))
    \/ InitVM(NestedProg)
    \/ \E cap \in 0..2, n \in 0..MaxLen :
         \E ops \in [1..n -> ClosureAlphabet] : InitVM(ClosureProg(cap, ops))
    \/ \E callee \in Callees, arity \in 0..MaxArgs, nf \in 0..MaxFields,
          n \in 0..MaxArgs, tail \in CallTails :
         InitVM(CallProg(callee, arity, nf, n, tail))
    \/ \E a \in Literals, b \in Literals, op \in Operators :
         InitVM(BinaryProg(a, b, op))
    \/ \E a \in Literals, op \in UnaryOps : InitVM(UnaryProg(a, op))
    \/ \E push \in FieldPushes, f \in {"a", "b"}, g \in {"a", "b"}, ta \in FieldTypes :
         InitVM(FieldProg(push, f, g, ta))
    \/ \E rootcap \in 0..2, cap \in 0..2, direct \in BOOLEAN :
         InitVM(SweepProg(rootcap, cap, direct))

Next ==
    \/ OpIllegal \/ OpUnreachable \/ OpPop \/ OpYield \/ OpPopUpvalue
    \/ OpConstant \/ OpGet \/ OpSet \/ OpNeg \/ OpAdd \/ OpSub \/ OpMul
    \/ OpDiv \/ OpEqual \/ OpLess \/ OpGreater \/ OpAnd \/ OpOr \/ OpNot
    \/ OpJmp \/ OpJmpFalse \/ OpAssert \/ OpReadUpvalue \/ OpAssignUpvalue
    \/ OpReadLocal \/ OpAssignLocal \/ OpDefine \/ OpCall \/ OpPrint
    \/ OpReturn \/ OpOutOfRange \/ Resume

Spec == Init /\ [][Next]_vars

\* The cells that outlive `self.stack.clear()`: the values on the stack are
\* dropped and with them every Rc of a cell but the one the registry holds.
\* RegistryRank numbers the registered slots in ascending order.
RegistryRank(s) == Cardinality({t \in DOMAIN upvalues : t <= s})
RegistrySlot(i) == CHOOSE s \in DOMAIN upvalues : RegistryRank(s) = i

\* The host calls VM::init(prog) again, with the program it gave before, on a
\* VM whose run() has returned.  init assigns blobs and extern_functions,
\* clears stack and frames and pushes the root function and the root frame;
\* it has no statement on `upvalues`.  The histories start over with the run.
\* No registered cell holds a closure or an instance, so nothing that is kept
\* points into what is dropped.
HostInit ==
    /\ status \in {"yield", "error", "done"}
    /\ stack' = <<FnLit(1)>>
    /\ frames' = <<[stack_offset |-> 0, block |-> 1, ip |-> 0]>>
    /\ upvalues' = [s \in DOMAIN upvalues |-> RegistryRank(s)]
    /\ cells' = [i \in 1..Cardinality(DOMAIN upvalues) |->
                    cells[upvalues[RegistrySlot(i)]]]
    /\ closes' = [i \in 1..Cardinality(DOMAIN upvalues) |->
                     IF upvalues[RegistrySlot(i)] \in DOMAIN closes
                     THEN [closes[upvalues[RegistrySlot(i)]] EXCEPT !.at = -1]
                     ELSE [n |-> 0, at |-> -1]]
    /\ insts' = <<>>
    /\ status' = "running"
    /\ acts' = <<0>>
    /\ nact' = 0
    /\ captured' = <<>>
    /\ last' = [op |-> "init"]
    /\ UNCHANGED <<progVars, err>>

\* A host that runs, resumes and re-initialises one VM.
HostNext == Next \/ HostInit

HostSpec == Init /\ [][HostNext]_vars

-----------------------------------------------------------------------------
(* VM::typecheck and VM::typecheck_block *)

\* Straight-line code for the typecheck: jumps, calls, returns and opcodes that
\* raise, over a two-block program.
TcAlphabet ==
    {Op0("Illegal"), Jmp(0), JmpFalse(0), Constant(IntV(1)),
     Constant(BoolV(TRUE)), Op0("Add"), Ret, Call(0)}

TcProg(ops, op2) ==
    Prog(<<Blk(FnVoid, <<>>, ops \o Epilogue),
           Blk(TFunction(<<TInt>>, TInt), <<>>, <<op2>>)>>, <<>>, <<>>)

\* Types for Define and for the parameter it is checked against.
DefineTypes ==
    {TUnknown, TVoid, TInt, TFloat, TBool, TString, TBlob(0), TBlobInstance(0),
     TBlobInstance(1), TFunction(<<>>, TVoid), TFunction(<<TInt>>, TInt),
     TFunction(<<TUnknown>>, TInt)}

\* A block whose parameter of type `arg` is on top of the stack at Define(ty).
DefineProg(arg, ty) ==
    Prog(<<Blk(TFunction(<<arg>>, TVoid), <<>>, <<Define(ty)>> \o Epilogue)>>,
         <<>>, <<>>)

\* Capture descriptors over slot 1 of the root block.
CaptureEntries ==
    {Up(1, is_up, ty) : is_up \in BOOLEAN, ty \in {TUnknown, TInt, TBool}}

\* The closure literal of block 2 is pushed twice; between the pushes slot 1,
\* which it captures, goes from a to b.
CaptureProg(a, b, ups) ==
    Prog(<<Blk(FnVoid, <<>>,
               <<Constant(a), Constant(FnLit(2)), Constant(b), AssignLocal(1),
                 Constant(FnLit(2))>> \o Epilogue),
           Blk(FnVoid, ups, Epilogue)>>, <<>>, <<>>)

\* A call of block 2, declared params -> ret, with the literals as arguments;
\* the body of block 2 is an opcode the typecheck rejects.
ParamTypes == {TInt, TBool, TUnknown}
RetTypes ==
    {TVoid, TInt, TBool, TFloat, TString, TUnknown, TBlobInstance(0),
     TFunction(<<>>, TVoid)}
ArgLiterals == {IntV(2), BoolV(FALSE)}

TypedCallProg(params, ret, lits) ==
    Prog(<<Blk(FnVoid, <<>>,
               <<Constant(FnLit(2))>> \o [i \in 1..Len(lits) |-> Constant(lits[i])]
                  \o <<Call(Len(lits))>> \o Epilogue),
           Blk(TFunction(params, ret), <<>>, <<Op0("Illegal")>>)>>,
         <<BlobOf(1)>>, <<>>)

\* Two blocks in two files whose line maps have entries at the opcode indices
\* `offs` only; the root calls block 2, and op1 and op2 may raise.
LineProg(offs, op1, op2) ==
    Prog(<<[ty |-> FnVoid, ups |-> <<>>,
            ops |-> <<Constant(FnLit(2)), Call(0), op1>> \o Epilogue,
            file |-> "main", line_offsets |-> [i \in offs |-> 10 + i]],
           [ty |-> FnVoid, ups |-> <<>>,
            ops |-> <<Constant(BoolV(FALSE)), op2>> \o Epilogue,
            file |-> "other", line_offsets |-> [i \in offs |-> 20 + i]]>>,
         <<>>, <<>>)

LineProgs ==
    {LineProg(offs, op1, op2) :
        offs \in SUBSET {0, 1, 2},
        op1 \in {Op0("Unreachable"), Op0("Neg"), Op0("Pop")},
        op2 \in {Op0("Assert"), Op0("Unreachable"), Op0("Not"), Op0("Illegal")}}

\* The VM at the entry of typecheck(prog).
InitTypecheck(prog) ==
    /\ blocks = prog.blocks
    /\ blobs = prog.blobs
    /\ extern_functions = prog.functions
    /\ stack = <<>>
    /\ frames = <<>>
    /\ upvalues = [s \in {} |-> 0]
    /\ cells = <<>>
    /\ insts = <<>>
    /\ status = "typecheck"
    /\ err = NoError
    /\ acts = <<0>>
    /\ nact = 0
    /\ captured = <<>>
    /\ closes = <<>>
    /\ last = [op |-> "init"]
    /\ tc = [nblocks |-> Len(prog.blocks), block |-> 1, inblock |-> FALSE,
             cur |-> <<>>, errors |-> <<>>, per_block |-> <<>>, steps |-> 0,
             refined |-> {}]

TcInit ==
    \/ \E cap \in 0..2, direct \in BOOLEAN : InitTypecheck(CounterProg(cap, direct))
    \/ \E leave \in {Op0("Pop"), Op0("PopUpvalue")} : InitTypecheck(SharedProg(leave))
    \/ InitTypecheck(NestedProg)
    \/ \E cap \in 0..2, n \in 0..(MaxLen - 1) :
         \E ops \in [1..n -> ClosureAlphabet] : InitTypecheck(ClosureProg(cap, ops))
    \/ \E callee \in Callees, arity \in 0..MaxArgs, nf \in 0..MaxFields,
          n \in 0..MaxArgs, tail \in CallTails :
         InitTypecheck(CallProg(callee, arity, nf, n, tail))
    \/ \E a \in Literals, b \in Literals, op \in Operators :
         InitTypecheck(BinaryProg(a, b, op))
    \/ \E a \in Literals, op \in UnaryOps : InitTypecheck(UnaryProg(a, op))
    \/ \E n \in 0..(MaxLen - 1), op2 \in TcAlphabet :
         \E ops \in [1..n -> TcAlphabet] : InitTypecheck(TcProg(ops, op2))
    \/ \E arg \in DefineTypes, ty \in DefineTypes :
         InitTypecheck(DefineProg(arg, ty))
    \/ \E a \in {IntV(2), BoolV(FALSE)}, b \in {IntV(0), BoolV(TRUE), Unkown},
          n \in 1..MaxArgs :
         \E ups \in [1..n -> CaptureEntries] : InitTypecheck(CaptureProg(a, b, ups))
    \/ \E np \in 0..MaxArgs, na \in 0..MaxArgs, ret \in RetTypes :
         \E params \in [1..np -> ParamTypes], lits \in [1..na -> ArgLiterals] :
            InitTypecheck(TypedCallProg(params, ret, lits))
    \/ \E push \in FieldPushes, f \in {"a", "b"}, g \in {"a", "b"}, ta \in FieldTypes :
         InitTypecheck(FieldProg(push, f, g, ta))
    \/ \E prog \in LineProgs : InitTypecheck(prog)

\* typecheck_block: the values pushed for the block's parameters.
RECURSIVE ArgValues(_, _, _)
ArgValues(args, i, acc) ==
    IF i > Len(args) THEN acc
    ELSE LET av == as_value(args[i], acc.blocks)
         IN ArgValues(args, i + 1,
                      [values |-> Append(acc.values, av.value), blocks |-> av.blocks])

\* typecheck: the loop over prog.blocks reaches the next block.
TcEnterBlock ==
    /\ status = "typecheck" /\ ~tc.inblock /\ tc.block <= tc.nblocks
    /\ IF blocks[tc.block].ty.t # "Function"
       THEN /\ status' = "panic"
            /\ UNCHANGED <<stack, frames, blocks, tc>>
       ELSE LET a == ArgValues(BlockArgs(blocks[tc.block]), 1,
                               [values |-> <<>>, blocks |-> blocks])
            IN /\ stack' = <<Function(<<>>, tc.block)>> \o a.values
               /\ frames' = <<[stack_offset |-> 0, block |-> tc.block, ip |-> 0]>>
               /\ blocks' = a.blocks
               /\ tc' = [tc EXCEPT !.inblock = TRUE, !.cur = <<>>, !.steps = 0]
               /\ UNCHANGED status
    /\ last' = [op |-> "typecheck_block"]
    /\ HeapSame /\ UNCHANGED <<blobs, extern_functions, err, histVars>>

TcAt(names) ==
    /\ status = "typecheck" /\ tc.inblock
    /\ OpInRange /\ CurOp.op \in names

\* An erroring step that leaves ip where it was.
AdvanceOnError_stay(fs) == fs

\* typecheck_block, `self.frame_mut().ip += 1` after an Err of check_op.
AdvanceOnError(fs) == [fs EXCEPT ![Len(fs)].ip = @ + 1]

\* check_op and eval_op, the closing `self.frame_mut().ip += 1`.
AdvanceOnOk(fs) == [fs EXCEPT ![Len(fs)].ip = @ + 1]

\* A loop of typecheck_block that leaves the stack as check_op left it.
IdentityTop_skip(stk) == stk

\* typecheck_block, after every step: the top of the stack becomes its identity.
IdentityTop(stk) ==
    IF stk = <<>> THEN stk ELSE [stk EXCEPT ![Len(stk)] = identity(@)]

\* History: the capture entries (block, index) that differ between two heaps.
Rewritten(old, new) ==
    {e \in (DOMAIN old) \X (1..MaxArgs + 1) :
        /\ e[2] <= Len(old[e[1]].ups)
        /\ new[e[1]].ups[e[2]] # old[e[1]].ups[e[2]]}

\* One turn of the loop of typecheck_block around the outcome r of check_op.
TcStep(r) ==
    /\ IF r.kind = "panic"
       THEN /\ status' = "panic"
            /\ UNCHANGED <<stack, frames, blocks, tc>>
       ELSE /\ stack' = IdentityTop(r.stack)
            /\ blocks' = r.blocks
            /\ frames' = IF r.kind = "err" THEN AdvanceOnError(frames)
                         ELSE AdvanceOnOk(frames)
            /\ tc' = [tc EXCEPT !.steps = @ + 1,
                                !.cur = IF r.kind = "err"
                                        THEN Append(@, VmError(r.ek, r.message))
                                        ELSE @,
                                !.refined = @ \cup Rewritten(blocks, r.blocks)]
            /\ UNCHANGED status
    /\ last' = CurOp
    /\ HeapSame /\ UNCHANGED <<blobs, extern_functions, err, histVars>>

TcUnreachable == TcAt({"Unreachable"}) /\ TcStep(TcOk(stack, blocks))
TcJmp == TcAt({"Jmp"}) /\ TcStep(TcOk(stack, blocks))
TcYield == TcAt({"Yield"}) /\ TcStep(TcOk(stack, blocks))
TcConstant ==
    TcAt({"Constant"}) /\ TcStep(CheckConstant(CurOp, stack, blocks, TopFrame.block))
TcGet == TcAt({"Get"}) /\ TcStep(CheckGet(CurOp, stack, blocks))
TcSet == TcAt({"Set"}) /\ TcStep(CheckSet(CurOp, stack, blocks))
TcPopUpvalue == TcAt({"PopUpvalue"}) /\ TcStep(CheckPop(stack, blocks))
TcReadUpvalue ==
    TcAt({"ReadUpvalue"})
    /\ TcStep(CheckReadUpvalue(CurOp, stack, blocks, TopFrame.block))
TcAssignUpvalue ==
    TcAt({"AssignUpvalue"})
    /\ TcStep(CheckAssignUpvalue(CurOp, stack, blocks, TopFrame.block))
TcReturn ==
    TcAt({"Return"}) /\ TcStep(CheckReturn(CurOp, stack, blocks, TopFrame.block))
TcPrint == TcAt({"Print"}) /\ TcStep(CheckPop(stack, blocks))
TcDefine == TcAt({"Define"}) /\ TcStep(CheckDefine(CurOp, stack, blocks))
TcCall == TcAt({"Call"}) /\ TcStep(CheckCall(CurOp, stack, blocks))
TcJmpFalse == TcAt({"JmpFalse"}) /\ TcStep(CheckJmpFalse(CurOp, stack, blocks))
TcEvalOp == TcAt(EvalOps) /\ TcStep(CheckEval(CurOp, stack, blocks))

\* A typecheck that keeps only the errors of the block just checked.
AppendErrors_last(errors, found) == found

\* typecheck, `errors.append(&mut self.typecheck_block(..))`.
AppendErrors(errors, found) == errors \o found

\* typecheck_block: `break` at the end of the opcode vector, `errors` returned.
TcLeaveBlock ==
    /\ status = "typecheck" /\ tc.inblock /\ ~OpInRange
    /\ tc' = [tc EXCEPT !.inblock = FALSE,
                        !.block = @ + 1,
                        !.errors = AppendErrors(@, tc.cur),
                        !.per_block = Append(@, [block |-> tc.block,
                                                 steps |-> tc.steps,
                                                 errors |-> tc.cur])]
    /\ last' = [op |-> "break"]
    /\ HeapSame
    /\ UNCHANGED <<blocks, blobs, extern_functions, stack, frames, status, err,
                   histVars>>

\* typecheck: Ok(()) when `errors` is empty, Err(errors) otherwise.
TcFinish ==
    /\ status = "typecheck" /\ ~tc.inblock /\ tc.block > tc.nblocks
    /\ status' = IF tc.errors = <<>> THEN "checked" ELSE "rejected"
    /\ last' = [op |-> "typecheck"]
    /\ HeapSame
    /\ UNCHANGED <<blocks, blobs, extern_functions, stack, frames, err, tc,
                   histVars>>

TcNext ==
    \/ TcEnterBlock \/ TcUnreachable \/ TcJmp \/ TcYield \/ TcConstant \/ TcGet
    \/ TcSet \/ TcPopUpvalue \/ TcReadUpvalue \/ TcAssignUpvalue \/ TcReturn
    \/ TcPrint \/ TcDefine \/ TcCall \/ TcJmpFalse \/ TcEvalOp \/ TcLeaveBlock
    \/ TcFinish

TcSpec == TcInit /\ [][TcNext]_vars

\* The loops of typecheck and typecheck_block run without interruption.
TcFairSpec == TcSpec /\ WF_vars(TcNext)

-----------------------------------------------------------------------------
(* The driver run (lib.rs): typecheck, then init, then VM::run *)

\* A driver that goes on to init whatever typecheck returned.
TypecheckPassed_always == status \in {"checked", "rejected"}

\* `vm.typecheck(&prog)?`: only Ok(()) lets the driver go on.
TypecheckPassed == status = "checked"

\* VM::init after a typecheck: the stack and the frames are rebuilt, the
\* blocks keep what the typecheck wrote into them.
DriverInit ==
    /\ TypecheckPassed
    /\ stack' = <<FnLit(1)>>
    /\ frames' = <<[stack_offset |-> 0, block |-> 1, ip |-> 0]>>
    /\ status' = "running"
    /\ last' = [op |-> "init"]
    /\ HeapSame
    /\ UNCHANGED <<blocks, blobs, extern_functions, err, tc, histVars>>

\* What run() hands back once it has returned.
DriverResult ==
    CASE status = "rejected" -> [ok |-> FALSE, errors |-> tc.errors]
      [] status = "error" -> [ok |-> FALSE, errors |-> <<err>>]
      [] OTHER -> [ok |-> TRUE, errors |-> <<>>]

DriverReturned == status \in {"rejected", "error", "done", "yield"}

\* Illegal never runs here: the typecheck rejects every block that holds it.
\* The driver never calls VM::run a second time, so there is no Resume.
DriverNext ==
    \/ TcNext \/ DriverInit
    \/ OpUnreachable \/ OpPop \/ OpYield \/ OpPopUpvalue
    \/ OpConstant \/ OpGet \/ OpSet \/ OpNeg \/ OpAdd \/ OpSub \/ OpMul
    \/ OpDiv \/ OpEqual \/ OpLess \/ OpGreater \/ OpAnd \/ OpOr \/ OpNot
    \/ OpJmp \/ OpJmpFalse \/ OpAssert \/ OpReadUpvalue \/ OpAssignUpvalue
    \/ OpReadLocal \/ OpAssignLocal \/ OpDefine \/ OpCall \/ OpPrint
    \/ OpReturn \/ OpOutOfRange

\* The programs handed to the driver: those of the typecheck but for TcProg,
\* whose backward jumps never return at runtime.
DriverStart ==
    \/ \E cap \in 0..2, direct \in BOOLEAN : InitTypecheck(CounterProg(cap, direct))
    \/ \E leave \in {Op0("Pop"), Op0("PopUpvalue")} : InitTypecheck(SharedProg(leave))
    \/ InitTypecheck(NestedProg)
    \/ \E cap \in 0..2, n \in 0..(MaxLen - 1) :
         \E ops \in [1..n -> ClosureAlphabet] : InitTypecheck(ClosureProg(cap, ops))
    \/ \E callee \in Callees, arity \in 0..MaxArgs, nf \in 0..MaxFields,
          n \in 0..MaxArgs, tail \in CallTails :
         InitTypecheck(CallProg(callee, arity, nf, n, tail))
    \/ \E a \in Literals, b \in Literals, op \in Operators :
         InitTypecheck(BinaryProg(a, b, op))
    \/ \E a \in Literals, op \in UnaryOps : InitTypecheck(UnaryProg(a, op))
    \/ \E arg \in DefineTypes, ty \in DefineTypes :
         InitTypecheck(DefineProg(arg, ty))
    \/ \E a \in {IntV(2), BoolV(FALSE)}, b \in {IntV(0), BoolV(TRUE), Unkown},
          n \in 1..MaxArgs :
         \E ups \in [1..n -> CaptureEntries] : InitTypecheck(CaptureProg(a, b, ups))
    \/ \E prog \in LineProgs : InitTypecheck(prog)

DriverSpec == DriverStart /\ [][DriverNext]_vars

-----------------------------------------------------------------------------
(* Properties *)

NeverClosed(c) == closes[c].n = 0
Registered(c) == \E k \in DOMAIN upvalues : upvalues[k] = c

\* C1: at most one cell that was never closed exists per absolute slot, it is
\* the cell the registry holds for that slot, and all captures served for a
\* slot through is_up = false entries while that cell is open hold that cell.
C1_SharedOpenCell ==
    /\ \A c1, c2 \in DOMAIN cells :
         (NeverClosed(c1) /\ NeverClosed(c2) /\ cells[c1].slot = cells[c2].slot)
            => c1 = c2
    /\ \A i, j \in DOMAIN captured :
         (/\ captured[i].slot = captured[j].slot
          /\ NeverClosed(captured[i].cell)
          /\ NeverClosed(captured[j].cell))
            => captured[i].cell = captured[j].cell
    /\ \A i \in DOMAIN captured :
         NeverClosed(captured[i].cell)
            => /\ captured[i].slot \in DOMAIN upvalues
               /\ upvalues[captured[i].slot] = captured[i].cell

\* Two closures were materialized over one slot and share its open cell.
C1_Witness ==
    \E i, j \in DOMAIN captured :
        /\ i < j
        /\ captured[i].slot = captured[j].slot
        /\ captured[i].cell = captured[j].cell
        /\ captured[i].slot # 0
        /\ ~is_closed(cells[captured[i].cell])
        /\ Registered(captured[i].cell)

\* C2 as stated: every cell in the registry under key k is open and refers to
\* slot k, and no cell exists over absolute slot 0.
C2_RegistryHoldsOpenCells ==
    \A k \in DOMAIN upvalues :
        /\ ~is_closed(cells[upvalues[k]])
        /\ cells[upvalues[k]].slot = k
        /\ k # 0

\* C2 amended: every cell in the registry under key k refers to slot k and
\* close() never ran on it; it is open exactly when k # 0.
C2_RegistryHoldsSlotCells ==
    \A k \in DOMAIN upvalues :
        /\ cells[upvalues[k]].slot = k
        /\ NeverClosed(upvalues[k])
        /\ is_closed(cells[upvalues[k]]) <=> (k = 0)

\* A cell is registered while another cell has been closed and dropped.
C2_Witness ==
    /\ \E k \in DOMAIN upvalues : k # 0
    /\ \E c \in DOMAIN cells : closes[c].n = 1

\* C3: once close() has run on a cell the cell stays closed, is out of the
\* registry, and close() never runs on it again.
C3_ClosedOnce ==
    \A c \in DOMAIN cells :
        closes[c].n >= 1
            => /\ closes[c].n = 1
               /\ is_closed(cells[c])
               /\ ~Registered(c)

\* A cell was closed and later opcodes captured and wrote through cells.
C3_Witness ==
    \E c \in DOMAIN cells :
        /\ closes[c].n = 1
        /\ closes[c].at < Len(captured)
        /\ last.op = "AssignUpvalue"

\* The steps that close cells, and the slots they close.
PopUpvalueStep == At("PopUpvalue") /\ status' = "running"
ReturnStep == At("Return") /\ Len(frames) > 1 /\ status' = "running"
SweptByReturn(k) == TopFrame.stack_offset + 1 <= k /\ k < Len(stack) - 1
ClosedByStep(k) ==
    \/ PopUpvalueStep /\ k = Len(stack) - 1
    \/ ReturnStep /\ SweptByReturn(k)

\* C4 as stated: no open cell refers to a stack index at or beyond the
\* current stack length.
C4_NoOpenCellBeyondStack ==
    \A c \in DOMAIN cells : ~is_closed(cells[c]) => cells[c].slot < Len(stack)

\* C4 amended: a step closes exactly the registered cells of the slot a
\* PopUpvalue pops and of the slots last.stack_offset+1 .. sp-2 a non-final
\* Return sweeps, with the value the slot holds; every other registered cell
\* (under Pop, the extern Call truncation, the Return's own two slots) stays
\* registered and keeps its slot.
C4_ClosedByPopUpvalueAndSweepOnly ==
    [][\A k \in DOMAIN upvalues :
          LET c == upvalues[k]
          IN IF ClosedByStep(k)
             THEN /\ k \notin DOMAIN upvalues'
                  /\ is_closed(cells'[c])
                  /\ cells'[c].value = stack[k + 1]
                  /\ closes'[c].n = closes[c].n + 1
             ELSE /\ k \in DOMAIN upvalues'
                  /\ upvalues'[k] = c
                  /\ cells'[c].slot = cells[c].slot
                  /\ closes'[c] = closes[c]]_vars

\* A non-final Return has just closed the cell of a swept slot while the
\* stack shrank.
C4_Witness ==
    /\ last.op = "Return"
    /\ status = "running"
    /\ \E c \in DOMAIN cells :
         /\ closes[c].n = 1
         /\ closes[c].at = Len(captured)
         /\ cells[c] = [slot |-> 0, value |-> IntV(0)]

\* The closure value at some stack index holds cell c.
HeldOnStack(stk, c) ==
    \E k \in DOMAIN stk :
        /\ stk[k].tag = "Function"
        /\ \E u \in DOMAIN stk[k].ups : stk[k].ups[u] = c

\* The cell the running closure's capture `slot` designates.
CellOfCapture(stk, slot) == stk[TopFrame.stack_offset + 1].ups[slot + 1]
ReadUpvalueStep == At("ReadUpvalue") /\ status' = "running"
AssignUpvalueStep == At("AssignUpvalue") /\ status' = "running"

\* C5 as stated: at a non-final Return every cell still open that the
\* returning activation captured over a slot of the stack, and that a closure
\* left on the stack holds, is closed with the value of its slot.
C5_ReturnFreezesEveryCapture ==
    [][ReturnStep =>
         \A i \in DOMAIN captured :
            LET e == captured[i]
            IN (/\ e.act = acts[Len(acts)]
                /\ ~is_closed(cells[e.cell])
                /\ e.slot < Len(stack)
                /\ HeldOnStack(stack', e.cell))
                  => /\ is_closed(cells'[e.cell])
                     /\ cells'[e.cell].value = stack[e.slot + 1]]_vars

\* C5 amended: at a non-final Return every cell still open that the returning
\* activation captured over a slot in last.stack_offset+1 .. sp-2 is closed
\* with the value of its slot; a closed cell changes only by AssignUpvalue
\* through it, and ReadUpvalue through it pushes the cell's own value.
C5_ReturnFreezesSweptCaptures ==
    [][/\ ReturnStep =>
            \A i \in DOMAIN captured :
               LET e == captured[i]
               IN (/\ e.act = acts[Len(acts)]
                   /\ ~is_closed(cells[e.cell])
                   /\ SweptByReturn(e.slot))
                     => /\ is_closed(cells'[e.cell])
                        /\ cells'[e.cell].value = stack[e.slot + 1]
       /\ \A c \in DOMAIN cells :
            closes[c].n >= 1
               => \/ cells'[c] = cells[c]
                  \/ /\ AssignUpvalueStep
                     /\ c = CellOfCapture(stack, CurOp.slot)
                     /\ cells'[c] = [slot |-> 0, value |-> stack[Len(stack)]]
       /\ ReadUpvalueStep =>
            LET c == CellOfCapture(stack, CurOp.slot)
            IN closes[c].n >= 1 => stack' = Append(stack, cells[c].value)]_vars

\* A closure whose enclosing activation has returned has just read the value
\* frozen in its cell.
C5_Witness ==
    /\ last.op = "ReadUpvalue"
    /\ status = "running"
    /\ Len(frames) > 1
    /\ \E i \in DOMAIN captured :
         LET e == captured[i]
         IN /\ e.act # 0
            /\ e.act \notin {acts[a] : a \in DOMAIN acts}
            /\ closes[e.cell].n = 1
            /\ HeldOnStack(<<stack[TopFrame.stack_offset + 1]>>, e.cell)
            /\ stack[Len(stack)] = cells[e.cell].value
            /\ cells[e.cell].value.tag = "Int"

\* C6 as stated: two captures of one slot served in one activation hold the
\* same cell.
C6_SameActivationSameCell ==
    \A i, j \in DOMAIN captured :
        (captured[i].act = captured[j].act /\ captured[i].slot = captured[j].slot)
            => captured[i].cell = captured[j].cell

\* Capture j was served while the cell of capture i was still registered.
OpenAt(i, j) == closes[captured[i].cell].n = 0 \/ closes[captured[i].cell].at >= j

SharedWhileOpen ==
    \A i, j \in DOMAIN captured :
        (i < j /\ captured[i].slot = captured[j].slot /\ OpenAt(i, j))
            => captured[i].cell = captured[j].cell

\* C6 amended: two captures of one slot hold the same cell when the second is
\* served while the first one's cell is still open; AssignUpvalue of v through
\* a cell makes v what a read through that cell returns, and while the cell is
\* open v is also the value of its stack slot.
C6_SharedCellCarriesWrites ==
    [][/\ SharedWhileOpen'
       /\ AssignUpvalueStep =>
            LET c == CellOfCapture(stack, CurOp.slot)
                v == stack[Len(stack)]
            IN /\ UpGet(cells'[c], stack') = [ok |-> TRUE, value |-> v]
               /\ ~is_closed(cells[c]) => stack'[cells[c].slot + 1] = v
       /\ ReadUpvalueStep =>
            LET c == CellOfCapture(stack, CurOp.slot)
            IN stack' = Append(stack, UpGet(cells[c], stack).value)]_vars

\* A reader has just read 5, written by the writer materialized in the same
\* activation over the same slot, through their shared cell.
C6_Witness ==
    /\ last.op = "ReadUpvalue"
    /\ status = "running"
    /\ stack[Len(stack)] = IntV(5)
    /\ \E i, j \in DOMAIN captured :
         /\ i # j
         /\ captured[i].act = captured[j].act
         /\ captured[i].slot = captured[j].slot
         /\ captured[i].cell = captured[j].cell
         /\ HeldOnStack(<<stack[TopFrame.stack_offset + 1]>>, captured[i].cell)
         /\ \E k \in DOMAIN stack :
              /\ k # TopFrame.stack_offset + 1
              /\ stack[k].tag = "Function"
              /\ stack[k].block # stack[TopFrame.stack_offset + 1].block
              /\ HeldOnStack(<<stack[k]>>, captured[i].cell)

\* C7 as stated: captures served by two activations of one function, the
\* first of which had returned, hold distinct cells.
C7_ActivationsHoldDistinctCells ==
    \A i, j \in DOMAIN captured :
        (/\ i < j
         /\ captured[i].fn = captured[j].fn
         /\ captured[i].act # captured[j].act
         /\ captured[i].act \notin captured[j].live)
            => captured[i].cell # captured[j].cell

DistinctAfterClose ==
    \A i, j \in DOMAIN captured :
        (i < j /\ ~OpenAt(i, j)) => captured[i].cell # captured[j].cell

\* C7 amended: a capture served after the cell of an earlier capture was
\* closed (by PopUpvalue or by the sweep of the Return of its activation) holds
\* a different cell, and AssignUpvalue through one cell changes the value read
\* through no other cell.
C7_ClosedCellsAreNotShared ==
    [][/\ DistinctAfterClose'
       /\ AssignUpvalueStep =>
            LET c == CellOfCapture(stack, CurOp.slot)
            IN \A d \in DOMAIN cells \ {c} :
                  (UpGet(cells[d], stack).ok /\ UpGet(cells'[d], stack').ok)
                     => UpGet(cells'[d], stack').value = UpGet(cells[d], stack).value]_vars

\* Two activations of one function captured the same absolute slot, hold
\* different cells, and a write through one has left the other behind.
C7_Witness ==
    /\ last.op = "AssignUpvalue"
    /\ status = "running"
    /\ \E i, j \in DOMAIN captured :
         /\ i < j
         /\ captured[i].fn = captured[j].fn
         /\ captured[i].slot = captured[j].slot
         /\ captured[i].act # captured[j].act
         /\ captured[i].act \notin captured[j].live
         /\ captured[i].cell # captured[j].cell
         /\ cells[captured[i].cell].value = IntV(2)
         /\ cells[captured[j].cell].value = IntV(1)

\* Op::Call finds a Function of the called arity at base = sp - n - 1.
CallFunctionStep ==
    /\ At("Call")
    /\ Len(stack) - 1 - CurOp.n >= 0
    /\ stack[Len(stack) - CurOp.n].tag = "Function"
    /\ Len(BlockArgs(blocks[stack[Len(stack) - CurOp.n].block])) = CurOp.n

\* C8: Call(n) on a Function of arity n pushes the frame {block, base, 0} and
\* leaves the stack alone, so local i of the callee is argument i; a non-final
\* Return of r leaves the stack at length base+1 with r at base, pops the
\* frame and resumes the caller right after its Call.
C8_CallAndReturnFrames ==
    [][/\ CallFunctionStep =>
            LET base == Len(stack) - 1 - CurOp.n
            IN /\ stack' = stack
               /\ frames' = Append(frames,
                               [stack_offset |-> base,
                                block |-> stack[base + 1].block, ip |-> 0])
               /\ status' = "running"
               /\ \A i \in 1..CurOp.n :
                     stack'[frames'[Len(frames')].stack_offset + i + 1]
                        = stack[Len(stack) - CurOp.n + i]
       /\ ReturnStep =>
            LET base == TopFrame.stack_offset
                caller == frames[Len(frames) - 1]
            IN /\ Len(stack') = base + 1
               /\ stack'[base + 1] = stack[Len(stack)]
               /\ blocks[caller.block].ops[caller.ip + 1].op = "Call"
               /\ frames' = [Front(frames) EXCEPT ![Len(frames) - 1].ip = caller.ip + 1]
               /\ SubSeq(stack', 1, base) = SubSeq(stack, 1, base)]_vars

\* A callee of arity 2 has returned its second argument to the caller.
C8_Witness ==
    /\ last.op = "Return"
    /\ status = "running"
    /\ Len(frames) = 1
    /\ Len(stack) = 2
    /\ stack[2] = IntV(2)
    /\ blocks[1].ops[TopFrame.ip].op = "Call"
    /\ blocks[1].ops[TopFrame.ip].n = 2

\* C9: Call(n) on a Function whose arity differs from n ends in an
\* InvalidProgram error with the stack, the frames and the ip unchanged.
C9_ArityMismatchIsInvalidProgram ==
    [][(/\ At("Call")
        /\ Len(stack) - 1 - CurOp.n >= 0
        /\ stack[Len(stack) - CurOp.n].tag = "Function"
        /\ Len(BlockArgs(blocks[stack[Len(stack) - CurOp.n].block])) # CurOp.n)
          => /\ status' = "error"
             /\ err'.kind = InvalidProgram
             /\ stack' = stack
             /\ frames' = frames]_vars

\* A Call(n) on a Function of another arity has just ended in InvalidProgram.
C9_Witness ==
    /\ status = "error"
    /\ err.kind = InvalidProgram
    /\ last.op = "Call"
    /\ Len(stack) - 1 - last.n >= 0
    /\ stack[Len(stack) - last.n].tag = "Function"
    /\ Len(BlockArgs(blocks[stack[Len(stack) - last.n].block])) # last.n

\* C10: Call(n) on a Blob at base = sp - n - 1 leaves the stack at length
\* base+1 with a fresh instance at base whose fields are all Nil, one per
\* field of the blob, and pushes no frame.
C10_BlobCallDiscardsArguments ==
    [][(/\ At("Call")
        /\ Len(stack) - 1 - CurOp.n >= 0
        /\ stack[Len(stack) - CurOp.n].tag = "Blob"
        /\ stack[Len(stack) - CurOp.n].blob < Len(blobs))
          => LET base == Len(stack) - 1 - CurOp.n
                 id == stack[base + 1].blob
             IN /\ Len(stack') = base + 1
                /\ stack'[base + 1] = BlobInstance(id, Len(insts) + 1)
                /\ insts' = Append(insts, [i \in 1..NumFields(blobs[id + 1]) |-> Nil])
                /\ frames' = [frames EXCEPT ![Len(frames)].ip = @ + 1]]_vars

\* C11: Call(n) whose callee at base is not a Blob, a Function or an
\* ExternFunction ends in an InvalidProgram error.
C11_NonCallableIsInvalidProgram ==
    [][(/\ At("Call")
        /\ Len(stack) - 1 - CurOp.n >= 0
        /\ stack[Len(stack) - CurOp.n].tag \notin {"Blob", "Function", "ExternFunction"})
          => /\ status' = "error"
             /\ err'.kind = InvalidProgram]_vars

\* Op::Call finds an ExternFunction of the extern table at base.
CallExternStep ==
    /\ At("Call")
    /\ Len(stack) - 1 - CurOp.n >= 0
    /\ stack[Len(stack) - CurOp.n].tag = "ExternFunction"
    /\ stack[Len(stack) - CurOp.n].ext < Len(extern_functions)

\* C12: Call(n) on an ExternFunction hands the host function the n values
\* above base in stack order and the flag false; on Ok(v) the stack is cut to
\* base and v pushed and the ip advances; on Err(kind) the run ends in an
\* error of that kind.
C12_ExternCall ==
    [][CallExternStep =>
         LET base == Len(stack) - 1 - CurOp.n
             f == extern_functions[stack[base + 1].ext + 1]
             Ok(v) == /\ stack' = Append(SubSeq(stack, 1, base), v)
                      /\ Len(stack') = base + 1
                      /\ frames' = [frames EXCEPT ![Len(frames)].ip = @ + 1]
                      /\ status' = "running"
             Err(kind) == status' = "error" /\ err'.kind = kind
         IN CASE f = "argc" -> Ok(IntV(CurOp.n))
              [] f = "first" -> IF CurOp.n = 0
                                THEN Err([k |-> "ExternTypeMismatch"])
                                ELSE Ok(stack[base + 2])
              [] f = "flag" -> Ok(BoolV(FALSE))
              [] OTHER -> Err([k |-> "ExternTypeMismatch"])]_vars

\* The host function returning its first argument was called with two
\* arguments and its result replaced callee and arguments.
C12_Witness ==
    /\ last.op = "Call"
    /\ last.n = 2
    /\ status = "running"
    /\ Len(frames) = 1
    /\ stack = <<FnLit(1), IntV(1)>>

\* C13: the run leaves the loop with Done exactly at a Return that pops the
\* only frame, with Yield exactly at a Yield opcode, and otherwise only with
\* an error; a Continue never leaves the loop.
C13_RunReturns ==
    [][/\ status' = "done" <=> (At("Return") /\ Len(frames) = 1)
       /\ status' = "done" => frames' = <<>>
       /\ status' = "yield" <=> At("Yield")
       /\ (status = "running" /\ status' \notin {"running", "done", "yield", "panic"})
             => status' = "error" /\ err'.kind.k # "None"
       /\ status \in {"done", "error", "panic"} => FALSE]_vars

\* The run has returned Done at the Return of the root frame.
C13_Witness ==
    /\ status = "done"
    /\ last.op = "Return"
    /\ frames = <<>>

\* C14: Yield changes nothing but the top frame's ip, which advances by one,
\* and hands Yield to the host; the next run() changes nothing and continues
\* at that ip, so a run across a Yield goes through the states of a run in
\* which the Yield is a no-op.
C14_YieldIsResumable ==
    [][/\ At("Yield") =>
            /\ status' = "yield"
            /\ stack' = stack
            /\ frames' = [frames EXCEPT ![Len(frames)].ip = @ + 1]
            /\ UNCHANGED <<upvalues, cells, insts, err, blocks, blobs, extern_functions>>
       /\ status = "yield" =>
            /\ status' = "running"
            /\ UNCHANGED <<stack, frames, upvalues, cells, insts, err,
                           blocks, blobs, extern_functions>>]_vars

\* The opcode right after a Yield has been executed by a resumed run.
C14_Witness ==
    /\ status = "running"
    /\ Len(frames) = 1
    /\ TopFrame.ip >= 2
    /\ CurBlock.ops[TopFrame.ip - 1].op = "Yield"
    /\ CurBlock.ops[TopFrame.ip].op = last.op
    /\ last.op \in {"Pop", "Define"}

\* C15: PopUpvalue pops the top value v; a cell registered for the freed slot
\* becomes closed holding v and leaves the registry; with no cell registered
\* the value is only discarded and execution continues.
C15_PopUpvalueClosesOrPops ==
    [][(At("PopUpvalue") /\ Len(stack) > 0) =>
         LET slot == Len(stack) - 1
         IN /\ stack' = Front(stack)
            /\ status' = "running"
            /\ frames' = [frames EXCEPT ![Len(frames)].ip = @ + 1]
            /\ IF slot \in DOMAIN upvalues
               THEN /\ cells'[upvalues[slot]] = [slot |-> 0, value |-> stack[Len(stack)]]
                    /\ slot \notin DOMAIN upvalues'
               ELSE UNCHANGED <<upvalues, cells>>]_vars

\* C16: JmpFalse pops one value; Bool(false) sets the ip to the target,
\* Bool(true) falls through to ip+1, any other value ends the run in an error.
C16_JmpFalseTypeError ==
    [][(At("JmpFalse") /\ Len(stack) > 0) =>
         LET v == stack[Len(stack)]
         IN IF v.tag = "Bool"
            THEN /\ stack' = Front(stack)
                 /\ status' = "running"
                 /\ frames' = [frames EXCEPT ![Len(frames)].ip =
                                  IF v.b THEN @ + 1 ELSE CurOp.target]
            ELSE status' = "error"]_vars

\* C17: Unreachable ends the run in an Unreachable error and Illegal in an
\* InvalidProgram error, with the stack and the ip as they were at the opcode,
\* and nothing is executed after the error.
C17_UnreachableAndIllegal ==
    [][/\ At("Unreachable") =>
            /\ status' = "error"
            /\ err'.kind = [k |-> "Unreachable"]
            /\ stack' = stack /\ frames' = frames
       /\ At("Illegal") =>
            /\ status' = "error"
            /\ err'.kind = InvalidProgram
            /\ stack' = stack /\ frames' = frames
       /\ status = "error" => FALSE]_vars

\* An Unreachable opcode has just ended the run.
C17_Witness ==
    /\ status = "error"
    /\ last.op = "Unreachable"
    /\ err.kind = [k |-> "Unreachable"]
    /\ CurOp.op = "Unreachable"

\* C18: Assert pops one value; Bool(false) ends the run in an Assert error,
\* any other value is replaced by Bool(true) and the next opcode follows.
C18_Assert ==
    [][(At("Assert") /\ Len(stack) > 0) =>
         LET v == stack[Len(stack)]
         IN IF v.tag = "Bool" /\ ~v.b
            THEN status' = "error" /\ err'.kind = [k |-> "Assert"]
            ELSE /\ stack' = Append(Front(stack), BoolV(TRUE))
                 /\ Len(stack') = Len(stack)
                 /\ status' = "running"
                 /\ frames' = [frames EXCEPT ![Len(frames)].ip = @ + 1]]_vars

\* An Assert has just replaced an Int by Bool(true).
C18_Witness ==
    /\ last.op = "Assert"
    /\ status = "running"
    /\ stack = <<FnLit(1), BoolV(TRUE)>>
    /\ blocks[1].ops[1] = Constant(IntV(2))
    /\ TopFrame.ip = 2

\* The errors of the blocks checked so far, in block order.
RECURSIVE FlattenErrors(_)
FlattenErrors(checked) ==
    IF checked = <<>> THEN <<>>
    ELSE FlattenErrors(Front(checked)) \o checked[Len(checked)].errors

\* C19: typecheck checks the blocks of the program in order, each to its last
\* opcode whatever errors it or an earlier block produced; its error vector is
\* the concatenation of the blocks' errors, and it returns Ok exactly when
\* every block produced none and that concatenation otherwise.
C19_TypecheckAccumulates ==
    /\ tc.errors = FlattenErrors(tc.per_block)
    /\ \A i \in DOMAIN tc.per_block :
          /\ tc.per_block[i].block = i
          /\ tc.per_block[i].steps = Len(blocks[i].ops)
    /\ status \in {"checked", "rejected"} =>
          /\ Len(tc.per_block) = tc.nblocks
          /\ status = "checked" <=>
                \A i \in DOMAIN tc.per_block : tc.per_block[i].errors = <<>>
          /\ status = "rejected" => tc.errors # <<>>

\* typecheck has returned the errors of two blocks, the earlier of which went
\* on after its first error.
C19_Witness ==
    /\ status = "rejected"
    /\ \E i, j \in DOMAIN tc.per_block :
          /\ i < j
          /\ Len(tc.per_block[i].errors) >= 2
          /\ tc.per_block[j].errors # <<>>
          /\ Len(tc.errors) = Len(tc.per_block[i].errors) + Len(tc.per_block[j].errors)

CheckStep ==
    /\ status = "typecheck" /\ tc.inblock
    /\ status' = "typecheck" /\ tc'.inblock

\* A step of the checking loop keeps the one frame and moves ip by one.
LinearStep ==
    CheckStep =>
       (/\ Len(frames) = 1 /\ Len(frames') = 1
        /\ frames'[1].block = frames[1].block
        /\ frames'[1].stack_offset = 0
        /\ frames'[1].ip = frames[1].ip + 1
        /\ tc'.steps = tc.steps + 1
        /\ tc'.steps = frames'[1].ip
        /\ Len(tc'.cur) \in {Len(tc.cur), Len(tc.cur) + 1})

\* The block is left after as many steps as it has opcodes.
LeftAfterAllOpcodes ==
    (tc.inblock /\ ~tc'.inblock) =>
       (/\ Len(frames) = 1
        /\ tc.steps = Len(blocks[frames[1].block].ops)
        /\ frames[1].ip = tc.steps)

\* C20: inside typecheck_block every step moves ip forward by exactly one in
\* the one frame of the block, whatever the opcode and whether or not it
\* raised; the block is left after as many steps as it has opcodes; and every
\* block that is entered is left (or the typecheck panics).
C20_TypecheckBlockIsLinear ==
    /\ [][LinearStep /\ LeftAfterAllOpcodes]_vars
    /\ (tc.inblock ~> (~tc.inblock \/ status = "panic"))

\* A block of at least three opcodes with a backward jump and an opcode that
\* raised has been checked to its end.
C20_Witness ==
    /\ last.op = "break"
    /\ \E i \in DOMAIN tc.per_block :
          /\ tc.per_block[i].steps >= 3
          /\ tc.per_block[i].errors # <<>>
          /\ \E k \in DOMAIN blocks[i].ops :
                /\ blocks[i].ops[k].op = "Jmp"
                /\ blocks[i].ops[k].target < k

RECURSIVE ContainsUnknown(_)
ContainsUnknown(ty) ==
    \/ ty.t = "UnknownType"
    \/ /\ ty.t = "Function"
       /\ \/ ContainsUnknown(ty.ret)
          \/ \E i \in DOMAIN ty.args : ContainsUnknown(ty.args[i])

\* Structural equality of types: the same shape, with no Unknown in it.
StructEq(a, b) == a = b /\ ~ContainsUnknown(a)

DefineMismatch ==
    /\ CurOp.ty.t # "UnknownType"
    /\ ~StructEq(CurOp.ty, as_type(stack[Len(stack)], blocks))

\* C21: in the typecheck, Define(Unknown) raises nothing whatever the top of
\* the stack is; Define(ty) with another ty raises one TypeError exactly when
\* ty is not structurally equal to the type of the top; the stack is the same
\* after the step.
C21_Define ==
    [][(TcAt({"Define"}) /\ Len(stack) > 0) =>
         /\ stack' = stack
         /\ status' = "typecheck"
         /\ IF DefineMismatch
            THEN /\ Len(tc'.cur) = Len(tc.cur) + 1
                 /\ SubSeq(tc'.cur, 1, Len(tc.cur)) = tc.cur
                 /\ tc'.cur[Len(tc'.cur)].kind.k = "TypeError"
                 /\ tc'.cur[Len(tc'.cur)].kind.op = CurOp
            ELSE tc'.cur = tc.cur]_vars

\* Define(Unknown) has just accepted a top of the stack of type Unknown.
C21_Witness ==
    /\ last = Define(TUnknown)
    /\ status = "typecheck"
    /\ stack[Len(stack)] = Unkown
    /\ tc.cur = <<>>
    /\ tc.steps = 1

\* A completed typecheck step on the Constant of a Function literal.
ConstantFunctionStep ==
    /\ TcAt({"Constant"}) /\ CurOp.value.tag = "Function"
    /\ status' = "typecheck"

LiteralUps == blocks[CurOp.value.block].ups
PushedStack == Append(stack, Function(<<>>, CurOp.value.block))
\* The type of the stack slot the i-th capture entry declares.
SlotType(i) == as_type(PushedStack[LiteralUps[i].slot + 1], blocks)
Conflict(i) ==
    /\ ~LiteralUps[i].is_up
    /\ LiteralUps[i].ty.t # "UnknownType"
    /\ ~StructEq(LiteralUps[i].ty, SlotType(i))
FirstConflict ==
    IF \E i \in DOMAIN LiteralUps : Conflict(i)
    THEN CHOOSE i \in DOMAIN LiteralUps :
            Conflict(i) /\ \A j \in 1..(i - 1) : ~Conflict(j)
    ELSE Len(LiteralUps) + 1
Refinable(i) == ~LiteralUps[i].is_up /\ LiteralUps[i].ty.t = "UnknownType"

\* One Function value is pushed, and a TypeError is raised exactly when a
\* known entry differs from its slot's type.
PushAndReport ==
    /\ stack' = PushedStack
    /\ Len(blocks'[CurOp.value.block].ups) = Len(LiteralUps)
    /\ IF FirstConflict <= Len(LiteralUps)
       THEN /\ Len(tc'.cur) = Len(tc.cur) + 1
            /\ tc'.cur[Len(tc'.cur)].kind =
                  TypeError(CurOp, <<LiteralUps[FirstConflict].ty,
                                     SlotType(FirstConflict)>>)
       ELSE tc'.cur = tc.cur

\* C22 as stated: every Unknown entry of the literal is refined to its slot's
\* type, every known entry that differs raises a TypeError, and one Function
\* value is pushed.
C22_EveryUnknownEntryRefined ==
    [][ConstantFunctionStep =>
         /\ PushAndReport
         /\ \A i \in DOMAIN LiteralUps :
               blocks'[CurOp.value.block].ups[i] =
                  IF Refinable(i) THEN [LiteralUps[i] EXCEPT !.ty = SlotType(i)]
                  ELSE LiteralUps[i]]_vars

\* C22: the entries of the literal are taken in order: an Unknown entry with
\* is_up = false is refined to its slot's type, and the first known entry that
\* differs from its slot's type raises the TypeError and ends the refinement,
\* the entries after it keeping their types; one Function value is pushed.
C22_RefinedUpToFirstConflict ==
    [][ConstantFunctionStep =>
         /\ PushAndReport
         /\ \A i \in DOMAIN LiteralUps :
               blocks'[CurOp.value.block].ups[i] =
                  IF Refinable(i) /\ i < FirstConflict
                  THEN [LiteralUps[i] EXCEPT !.ty = SlotType(i)]
                  ELSE LiteralUps[i]]_vars

\* The second push of the closure literal has found slot 1 a Bool where the
\* first push had refined the capture to Int.
C22_Witness ==
    /\ last = Constant(FnLit(2))
    /\ status = "typecheck"
    /\ Len(stack) = 4 /\ stack[3] = FnLit(2) /\ stack[4] = FnLit(2)
    /\ blocks[1].ops[1] = Constant(IntV(2))
    /\ blocks[2].ups[1] = Up(1, FALSE, TInt)
    /\ Len(tc.cur) = 1
    /\ tc.cur[1].kind = TypeError(Constant(FnLit(2)), <<TInt, TBool>>)

\* The capture entry i of block b is rewritten by the step.
EntryChanges(b, i) == blocks'[b].ups[i] # blocks[b].ups[i]

\* C23: through the typecheck and the run that follows it, a capture entry is
\* rewritten only when is_up = false and its type is Unknown, only in its
\* type, to a type that is not Unknown, and never a second time; no block and
\* no entry is ever removed.
C23_RefinementIsMonotone ==
    [][/\ Len(blocks') >= Len(blocks)
       /\ \A b \in DOMAIN blocks :
             /\ Len(blocks'[b].ups) = Len(blocks[b].ups)
             /\ \A i \in DOMAIN blocks[b].ups :
                   EntryChanges(b, i) =>
                      /\ ~blocks[b].ups[i].is_up
                      /\ blocks[b].ups[i].ty.t = "UnknownType"
                      /\ blocks'[b].ups[i].ty.t # "UnknownType"
                      /\ blocks'[b].ups[i] =
                            [blocks[b].ups[i] EXCEPT !.ty = blocks'[b].ups[i].ty]
                      /\ <<b, i>> \notin tc.refined
                      /\ status = "typecheck"]_vars

\* A program whose capture was refined from Unknown to Int by the typecheck
\* has run to its end with the entry as refined.
C23_Witness ==
    /\ status = "done"
    /\ tc.refined = {<<2, 1>>}
    /\ blocks[2].ups = <<Up(1, FALSE, TInt)>>
    /\ last.op = "Return"

\* The typecheck is at Call(n) with a Function of arity n n values below the top.
CheckCallFunction ==
    /\ TcAt({"Call"})
    /\ Len(stack) - 1 - CurOp.n >= 0
    /\ stack[Len(stack) - CurOp.n].tag = "Function"
    /\ blocks[stack[Len(stack) - CurOp.n].block].ty.t = "Function"
    /\ Len(blocks[stack[Len(stack) - CurOp.n].block].ty.args) = CurOp.n

\* C24: in the typecheck, Call(n) on a Function of arity n whose parameter
\* types equal the types of the n values above it, pairwise and in order,
\* leaves below the callee's slot what was there and in that slot the default
\* value of the declared return type, with the one frame still in the same
\* block at the next opcode and no error; when the parameter types do not
\* match, it raises one TypeError and leaves the stack as it was.
C24_CallChecksAgainstSignature ==
    [][CheckCallFunction =>
         LET base == Len(stack) - 1 - CurOp.n
             ty == blocks[stack[base + 1].block].ty
         IN IF \A i \in 1..CurOp.n :
                  StructEq(ty.args[i], as_type(stack[base + 1 + i], blocks))
            THEN /\ stack' = Append(SubSeq(stack, 1, base), as_value(ty.ret, blocks).value)
                 /\ Len(stack') = base + 1
                 /\ frames' = <<[frames[1] EXCEPT !.ip = @ + 1]>>
                 /\ tc'.cur = tc.cur
                 /\ status' = "typecheck"
            ELSE /\ stack' = stack
                 /\ Len(tc'.cur) = Len(tc.cur) + 1
                 /\ tc'.cur[Len(tc'.cur)].kind = TypeError(CurOp, <<>>)
                 /\ Len(frames') = 1]_vars

\* Call(2) on a function (Int, Bool) -> Float over an Int and a Bool has left
\* one Float in the callee's slot; the callee's body, an Illegal, raised nothing.
C24_Witness ==
    /\ last = Call(2)
    /\ status = "typecheck"
    /\ stack = <<FnLit(1), FloatV(1, 1)>>
    /\ blocks[2].ty = TFunction(<<TInt, TBool>>, TFloat)
    /\ blocks[2].ops = <<Op0("Illegal")>>
    /\ frames = <<[stack_offset |-> 0, block |-> 1, ip |-> 4]>>
    /\ tc.cur = <<>>

\* The typecheck is at Call(n) with a value that cannot be called n values
\* below the top.
CheckCallNonFunction ==
    /\ TcAt({"Call"})
    /\ Len(stack) - 1 - CurOp.n >= 0
    /\ stack[Len(stack) - CurOp.n].tag \notin {"Blob", "Function", "ExternFunction"}

\* C25: in the typecheck, Call(n) on a callee that is no Blob, Function or
\* ExternFunction adds exactly one error, a TypeError naming the Call and the
\* callee's type, and the typecheck goes on at the next opcode of the block.
C25_CallOfNonFunctionIsTypeError ==
    [][CheckCallNonFunction =>
         /\ status' = "typecheck"
         /\ tc'.inblock
         /\ Len(tc'.cur) = Len(tc.cur) + 1
         /\ SubSeq(tc'.cur, 1, Len(tc.cur)) = tc.cur
         /\ tc'.cur[Len(tc'.cur)].kind =
               TypeError(CurOp, <<as_type(stack[Len(stack) - CurOp.n], blocks)>>)
         /\ frames' = <<[frames[1] EXCEPT !.ip = @ + 1]>>
         /\ stack' = stack]_vars

\* The call of an Int has raised its TypeError and the opcode after it is next.
C25_Witness ==
    /\ last = Call(0)
    /\ status = "typecheck"
    /\ stack = <<FnLit(1), IntV(1)>>
    /\ Len(tc.cur) = 1
    /\ tc.cur[1].kind = TypeError(Call(0), <<TInt>>)
    /\ frames[1].ip = 2
    /\ OpInRange

\* The typecheck is at Set(field) with a value on top of an instance that has
\* the field.
CheckSetOnInstance ==
    /\ TcAt({"Set"})
    /\ Len(stack) >= 2
    /\ stack[Len(stack) - 1].tag = "BlobInstance"
    /\ HasField(stack[Len(stack) - 1], CurOp.field)

\* C26: in the typecheck, Set(field) on an instance pops the value and the
\* instance; it raises nothing when the value's type equals the field's
\* declared type and one error of kind TypeError when it differs.
C26_SetMismatchIsTypeError ==
    [][CheckSetOnInstance =>
         /\ status' = "typecheck"
         /\ stack' = IdentityTop(SubSeq(stack, 1, Len(stack) - 2))
         /\ IF StructEq(FieldType(stack[Len(stack) - 1], CurOp.field),
                        TypeFrom(stack[Len(stack)], blocks))
            THEN tc'.cur = tc.cur
            ELSE /\ Len(tc'.cur) = Len(tc.cur) + 1
                 /\ tc'.cur[Len(tc'.cur)].kind.k = "TypeError"]_vars

\* The run is at Get or Set with an instance that has the field in its place.
AtFieldOf(name, inst) ==
    /\ At(name)
    /\ inst.tag = "BlobInstance"
    /\ FieldOk(inst, CurOp.field)

SlotOf(inst, field) == blobs[inst.blob + 1].name_to_field[field].slot + 1

\* Set(f) writes the value into field f of the instance's vector and nothing else.
SetStores ==
    (Len(stack) >= 2 /\ AtFieldOf("Set", stack[Len(stack) - 1])) =>
       LET inst == stack[Len(stack) - 1]
       IN /\ status' = "running"
          /\ stack' = SubSeq(stack, 1, Len(stack) - 2)
          /\ Len(insts') = Len(insts)
          /\ \A r \in DOMAIN insts :
                /\ Len(insts'[r]) = Len(insts[r])
                /\ \A k \in DOMAIN insts[r] :
                      insts'[r][k] =
                         IF r = inst.ref /\ k = SlotOf(inst, CurOp.field)
                         THEN stack[Len(stack)] ELSE insts[r][k]

\* Get(f) pushes field f of the vector the instance on top points to.
GetLoads ==
    (Len(stack) >= 1 /\ AtFieldOf("Get", stack[Len(stack)])) =>
       LET inst == stack[Len(stack)]
       IN /\ status' = "running"
          /\ stack' = Append(Front(stack), insts[inst.ref][SlotOf(inst, CurOp.field)])
          /\ insts' = insts

\* In a field-store program: b was set to 7, then a value was pushed and
\* stored by Set(f) through one copy of the instance, and Get(g) has just read
\* through another copy.
FieldProgAfterGet ==
    /\ status = "running" /\ last.op = "Get"
    /\ Len(frames) = 1 /\ TopFrame.ip = 10
    /\ Len(blocks[1].ops) = 12
    /\ blocks[1].ops[5] = Constant(IntV(7)) /\ blocks[1].ops[6] = Set("b")
    /\ blocks[1].ops[9].op = "Set"

FieldRoundTrip ==
    FieldProgAfterGet =>
       LET ops == blocks[1].ops
           stored == IF ops[8].op = "ReadLocal" THEN stack[2] ELSE ops[8].value
       IN stack[Len(stack)] =
             IF ops[9].field = ops[10].field THEN stored
             ELSE IF ops[10].field = "b" THEN IntV(7) ELSE Nil

\* C27: at runtime Set(f) stores the value in field f of the instance's field
\* vector and changes no other field of any instance; Get(f) pushes field f
\* of that vector; so after a Set(f) of v through one copy of an instance,
\* Get(f) through another copy pushes v, for every variant of v, and Get of
\* the other field pushes what that field held before.
C27_FieldRoundTrip ==
    [][SetStores /\ GetLoads /\ FieldRoundTrip']_vars

\* Get(a) through a copy of the instance has pushed the String stored by
\* Set(a) through another copy.
C27_Witness ==
    /\ FieldProgAfterGet
    /\ blocks[1].ops[8] = Constant(StringV(<<1>>))
    /\ blocks[1].ops[9] = Set("a")
    /\ blocks[1].ops[10] = Get("a")
    /\ stack = <<FnLit(1), BlobInstance(0, 1), StringV(<<1>>)>>
    /\ insts = <<<<StringV(<<1>>), IntV(7)>>>>

\* An opcode is evaluated by VM::run.
RuntimeStep == status = "running"

\* C28: the driver typechecks first; init and the evaluation of opcodes follow
\* only a typecheck that found no error; a typecheck with errors is the end,
\* and the driver returns those errors; a failed execution is the end, and the
\* driver returns a vector of exactly that one error; the driver returns Ok
\* only from an execution that ended in Done or Yield.
C28_DriverPhases ==
    [][/\ (status = "typecheck" /\ status' # "typecheck") =>
             /\ status' \in {"checked", "rejected", "panic"}
             /\ status' = "rejected" =>
                   (tc.errors # <<>> /\ DriverResult' = [ok |-> FALSE, errors |-> tc.errors])
             /\ status' = "checked" => (tc.errors = <<>> /\ tc.block > tc.nblocks)
       /\ status = "checked" =>
             /\ status' = "running"
             /\ stack' = <<FnLit(1)>>
             /\ frames' = <<[stack_offset |-> 0, block |-> 1, ip |-> 0]>>
       /\ RuntimeStep =>
             /\ tc.errors = <<>> /\ tc.block > tc.nblocks /\ tc' = tc
             /\ status' \in {"running", "error", "done", "yield", "panic"}
             /\ status' = "error" =>
                   (err' # NoError /\ DriverResult' = [ok |-> FALSE, errors |-> <<err'>>])
             /\ status' \in {"done", "yield"} => (DriverResult'.ok /\ err' = NoError)
       /\ DriverReturned => FALSE
       /\ DriverResult'.ok => status' \notin {"rejected", "error"}]_vars

\* The typecheck passed and the run then failed: the driver returns the one error.
C28_Witness ==
    /\ status = "error"
    /\ tc.errors = <<>>
    /\ tc.block > tc.nblocks
    /\ Len(DriverResult.errors) = 1
    /\ DriverResult.errors[1].kind.k = "Unreachable"

\* The line recorded at the greatest opcode index <= ip with a line-map entry,
\* 0 when there is none.
LineAt(b, ip) ==
    LET before == {i \in DOMAIN b.line_offsets : i <= ip}
    IN IF before = {} THEN 0
       ELSE b.line_offsets[CHOOSE i \in before : \A j \in before : j <= i]

\* The error e was built in the top frame at the opcode the frame is at.
BuiltHere(e) ==
    /\ e.file = CurBlock.file
    /\ e.line = LineAt(CurBlock, TopFrame.ip)

\* C29: an error raised by the run carries the file of the top frame's block
\* and that block's line for the frame's ip, which is the index of the failing
\* opcode and is not advanced; an error raised by the typecheck carries the
\* file and the line for the index of the opcode being checked, and ip is
\* advanced only afterwards.
C29_ErrorsCarryFileAndLine ==
    [][/\ (status = "running" /\ status' = "error") =>
             /\ BuiltHere(err')
             /\ frames' = frames
             /\ CurOp = last'
       /\ (status = "typecheck" /\ tc.inblock /\ Len(tc'.cur) > Len(tc.cur)) =>
             /\ Len(tc'.cur) = Len(tc.cur) + 1
             /\ BuiltHere(tc'.cur[Len(tc'.cur)])
             /\ frames'[1].ip = frames[1].ip + 1]_vars

\* An error was raised in the called block, in the second file, at an opcode
\* with no line-map entry at or before it: line 0.
C29_Witness ==
    /\ status = "error"
    /\ Len(frames) = 2
    /\ TopFrame = [stack_offset |-> 1, block |-> 2, ip |-> 1]
    /\ DOMAIN blocks[2].line_offsets = {2}
    /\ err.file = "other"
    /\ err.line = 0

\* The step ends the run in a RuntimeTypeError.
RaisesRuntimeTypeError ==
    /\ status = "running" /\ status' = "error"
    /\ err'.kind.k = "RuntimeTypeError"

\* The values the opcode popped: the top of the stack, or the top two.
Operands ==
    {stack[k] : k \in {j \in DOMAIN stack : j >= Len(stack) - 1}}

\* C30: a RuntimeTypeError of the run names the opcode that was executing and
\* carries values that opcode received; Set(field) on a value that is no
\* instance reports Set(field), Get(field) reports Get(field).
C30_RuntimeTypeErrorNamesItsOpcode ==
    [][RaisesRuntimeTypeError =>
         /\ err'.kind.op = CurOp
         /\ Len(err'.kind.values) >= 1
         /\ \A k \in DOMAIN err'.kind.values : err'.kind.values[k] \in Operands]_vars

-----------------------------------------------------------------------------
(* Operand order of the binary opcodes *)

BinaryNames ==
    {"Add", "Sub", "Mul", "Div", "Equal", "Less", "Greater", "And", "Or"}

\* A binary opcode runs on two operands and returns (no panic: an integer
\* division by zero aborts the process).
BinaryStep ==
    /\ Running /\ OpInRange /\ CurOp.op \in BinaryNames
    /\ Len(stack) >= 2
    /\ status' # "panic"

\* The value pushed earlier and the value pushed last.
Left == stack[Len(stack) - 1]
Right == stack[Len(stack)]
BelowOperands == SubSeq(stack, 1, Len(stack) - 2)

\* l / r of i64: the quotient rounded toward zero.
Quotient(l, r) ==
    CHOOSE q \in -Abs(l)..Abs(l) :
        /\ Abs(l - q * r) < Abs(r)
        /\ (l - q * r) * l >= 0

IntPairResult ==
    CASE CurOp.op = "Sub" -> IntV(Left.i - Right.i)
      [] CurOp.op = "Div" -> IntV(Quotient(Left.i, Right.i))
      [] CurOp.op = "Less" -> BoolV(Left.i < Right.i)
      [] CurOp.op = "Greater" -> BoolV(Left.i > Right.i)

\* C31: a binary opcode takes the second value from the top as its left
\* operand and the top as its right operand: on two Ints Sub pushes
\* left - right, Div left / right, Less left < right, Greater left > right
\* in place of the operands; on operands of different variants the run ends
\* in RuntimeTypeError(op, [left, right]) with both operands popped and
\* nothing pushed.
C31_BinaryOperandOrder ==
    [][BinaryStep =>
         /\ (Left.tag = "Int" /\ Right.tag = "Int"
                /\ CurOp.op \in {"Sub", "Div", "Less", "Greater"}
              => /\ status' = "running"
                 /\ stack' = Append(BelowOperands, IntPairResult)
                 /\ frames' = AdvanceIp(frames))
         /\ (Left.tag # Right.tag
              => /\ status' = "error"
                 /\ err'.kind = RuntimeTypeError(CurOp, <<Left, Right>>)
                 /\ stack' = BelowOperands
                 /\ frames' = frames)]_vars

\* 2 was pushed, then -3, and Sub left 2 - (-3) = 5.
C31_Witness ==
    /\ status = "running"
    /\ last = Op0("Sub")
    /\ SubSeq(blocks[1].ops, 1, 3) =
         <<Constant(IntV(2)), Constant(IntV(-3)), Op0("Sub")>>
    /\ TopFrame = [stack_offset |-> 0, block |-> 1, ip |-> 3]
    /\ stack = <<FnLit(1), IntV(5)>>

-----------------------------------------------------------------------------
(* The typecheck stack holds representatives, not values *)

\* An Int, Float or Bool is the value identity() returns for its variant.
Canonical(v) ==
    /\ (v.tag = "Int" => v = IntV(1))
    /\ (v.tag = "Float" => v = FloatV(1, 1))
    /\ (v.tag = "Bool" => v = BoolV(TRUE))

CanonicalStack ==
    status = "typecheck" => \A k \in DOMAIN stack : Canonical(stack[k])

\* check_op on Assert or Div: no Assert error is collected, and a Div of two
\* Ints divides by a divisor that is not zero and does not abort.
AssertAndDivAreSafe ==
    TcAt({"Assert", "Div"}) =>
        /\ (CurOp.op = "Assert"
             => /\ status' = "typecheck"
                /\ tc'.cur = tc.cur)
        /\ (CurOp.op = "Div" /\ Len(stack) >= 2
                /\ Left.tag = "Int" /\ Right.tag = "Int"
             => /\ Right.i # 0
                /\ status' = "typecheck"
                /\ tc'.cur = tc.cur)

\* C32: while typecheck runs, after every step every Int, Float and Bool on
\* the operand stack, at any depth, is Int(1), Float(1.0) or Bool(true); so
\* Assert never yields an Assert error and an integer Div never divides by
\* zero during typecheck.
C32_TypecheckStackIsCanonical ==
    []CanonicalStack /\ [][AssertAndDivAreSafe]_vars

\* The literals 2 and 0 were pushed and Div divided 1 by 1 where the run
\* would divide 2 by 0.
C32_Witness ==
    /\ status = "typecheck" /\ tc.inblock
    /\ last = Op0("Div")
    /\ SubSeq(blocks[1].ops, 1, 3) =
         <<Constant(IntV(2)), Constant(IntV(0)), Op0("Div")>>
    /\ TopFrame = [stack_offset |-> 0, block |-> 1, ip |-> 3]
    /\ stack = <<FnLit(1), IntV(1)>>
    /\ tc.cur = <<>>

-----------------------------------------------------------------------------
(* VM::init on a VM that has run *)

\* init(prog) is called on a VM whose run() has returned.
InitAfterRun ==
    /\ status \in {"yield", "error", "done"}
    /\ status' = "running"
    /\ last' = [op |-> "init"]

\* C33: init(prog) resets the execution state whatever the VM did before:
\* afterwards the stack is [Function with no captures over block 0], the
\* frames are [Frame{stack_offset 0, ip 0, block 0}] and the upvalue
\* registry is empty.
C33_InitResetsEverything ==
    [][InitAfterRun =>
         /\ stack' = <<Function(<<>>, 1)>>
         /\ frames' = <<[stack_offset |-> 0, block |-> 1, ip |-> 0]>>
         /\ DOMAIN upvalues' = {}]_vars

-----------------------------------------------------------------------------
(* The sweep of a non-final Return *)

\* A Return out of a called frame that completes; TopFrame is `last`.
NonFinalReturn ==
    /\ At("Return") /\ Len(frames) > 1
    /\ status' = "running"

\* C34: a non-final Return closes, with the value its slot holds, and takes
\* out of the registry exactly the cells registered for the slots
\* last.stack_offset+1 .. sp-1 (sp the stack length once the return value is
\* popped); every cell registered for a slot <= last.stack_offset is left as
\* it is under the same key; no other cell changes; the stack below
\* last.stack_offset is unchanged, the return value is at last.stack_offset
\* and nothing lies above it.
C34_ReturnSweepsTheFrame ==
    [][NonFinalReturn =>
         /\ DOMAIN upvalues' = {k \in DOMAIN upvalues : ~SweptByReturn(k)}
         /\ \A k \in DOMAIN upvalues :
               LET c == upvalues[k]
               IN /\ SweptByReturn(k) =>
                        /\ ~is_closed(cells[c])
                        /\ cells'[c] = [slot |-> 0, value |-> stack[k + 1]]
                        /\ closes'[c].n = closes[c].n + 1
                  /\ k <= TopFrame.stack_offset =>
                        /\ k \in DOMAIN upvalues'
                        /\ upvalues'[k] = c
                        /\ cells'[c] = cells[c]
                        /\ closes'[c] = closes[c]
         /\ Len(cells') = Len(cells)
         /\ \A c \in DOMAIN cells :
               cells'[c] # cells[c] =>
                  \E k \in DOMAIN upvalues : upvalues[k] = c /\ SweptByReturn(k)
         /\ Len(stack') = TopFrame.stack_offset + 1
         /\ stack'[TopFrame.stack_offset + 1] = stack[Len(stack)]
         /\ \A j \in 1..TopFrame.stack_offset : stack'[j] = stack[j]]_vars

\* A Return has just closed the cell of a local of the returning frame while
\* an open cell over a slot of the caller stays registered.
C34_Witness ==
    /\ last.op = "Return"
    /\ status = "running"
    /\ \E c \in DOMAIN cells :
         /\ is_closed(cells[c])
         /\ closes[c].n = 1
         /\ closes[c].at = Len(captured)
         /\ ~Registered(c)
    /\ \E k \in DOMAIN upvalues :
         /\ k >= 1 /\ k < Len(stack)
         /\ cells[upvalues[k]] = [slot |-> k, value |-> Nil]

====
